---- MODULE Spec2Model ----
(***************************************************************************)
(* Model of GcsClient (electron/gcs/gcs-client.ts): one client and one     *)
(* bucket of the provider.                                                 *)
(*                                                                         *)
(* Spec: one public call (listItems, listFolders, copyFolder, moveItem,    *)
(* uploadItem, downloadItem, deleteItem, copyItem, fileExists) running     *)
(* through its awaits.  Every request the call issues is appended to the log reqs; the *)
(* provider answers the requests that are in flight (fetch), and the call  *)
(* resumes after each await.                                               *)
(*                                                                         *)
(* SpecSend: one call of sendRequest in detail: the date, the string that  *)
(* is signed, the headers, the abort timer, the response policy, and the   *)
(* reading of the body by the caller.                                      *)
(*                                                                         *)
(* SpecConc: two listItems calls running concurrently on the client.       *)
(*                                                                         *)
(* SpecLocal: the constructor, the application's configuration object, and *)
(* the URL, canonical resource and headers of the first request of a call. *)
(*                                                                         *)
(* SpecParse: an item of a listing turned into an Object Record.           *)
(*                                                                         *)
(* SpecListFair: one listItems call under the event loop's scheduling.     *)
(*                                                                         *)
(* SpecRepeat: deleteItem called several times, one call after the other.  *)
(*                                                                         *)
(* SpecConnect: the main process (electron/main.ts): two invocations of    *)
(* the connect command and one of another command, in any interleaving.    *)
(*                                                                         *)
(* A key is the sequence of its characters; an object's content is named   *)
(* by the key it was stored under in the initial bucket.                   *)
(***************************************************************************)
EXTENDS Integers, Sequences, FiniteSets, TLC

\* ------------------------------------------------------------------ bounds

\* The most objects the bucket holds when the call starts.
MaxObjects == 3

\* ------------------------------------------------------------ keys, inputs

NoKey == <<>>
Ka == <<"a", "/">>
Kax == <<"a", "/", "x">>
Kay == <<"a", "/", "y">>
Kab == <<"a", "/", "b", "/">>
Kabx == <<"a", "/", "b", "/", "x">>
Kb == <<"b", "/">>
Kbx == <<"b", "/", "x">>
Kx == <<"x">>
Ky == <<"y">>

\* Keys the bucket may hold at the start: a folder marker, objects under it
\* (one nested), an object under another prefix and a plain object.
InitKeys == {Ka, Kax, Kay, Kabx, Kbx, Kx}

\* Arguments of moveItem / copyFolder.
SourceKeys == {Ka, Kax, Kx}
FolderKeys == {Ka}
DestKeys == {Kb, Kab, Ka, Ky, Kax}
FolderDestKeys == {Kb, Kab, Ka}

\* Arguments of listItems: the prefix (NoKey: omitted) and the page size.
Prefixes == {NoKey, Ka}
PageSizes == {-1, 0, 1, 2, 1000, 1001}

\* The provider lists keys in the byte order of their characters.
CharRank(c) == CASE c = "/" -> 1 [] c = "a" -> 2 [] c = "b" -> 3 [] c = "x" -> 4 [] OTHER -> 5

KeyLess(k1, k2) ==
  \E i \in 1..Len(k2) :
     /\ i <= Len(k1) + 1
     /\ \A j \in 1..(i - 1) : k1[j] = k2[j]
     /\ \/ i = Len(k1) + 1
        \/ CharRank(k1[i]) < CharRank(k2[i])

RECURSIVE SortKeys(_)
SortKeys(S) ==
  IF S = {} THEN <<>>
  ELSE LET m == CHOOSE x \in S : \A y \in S : x = y \/ KeyLess(x, y)
       IN  <<m>> \o SortKeys(S \ {m})

\* String.prototype.startsWith / endsWith('/') / slice(n) on keys.
startsWith(k, p) == Len(p) <= Len(k) /\ SubSeq(k, 1, Len(p)) = p
endsWithSlash(k) == Len(k) > 0 /\ k[Len(k)] = "/"
sliceOffByOne(k, n) == SubSeq(k, n, Len(k))
slice(k, n) == SubSeq(k, n + 1, Len(k))

Min(a, b) == IF a < b THEN a ELSE b

\* ------------------------------------------------------------------- state

VARIABLES
  bucket,             \* the provider's objects: key -> content
  bucket0,            \* the bucket when the call started
  op,                 \* the public call: name, sourceKey, destKey, prefix, pageSize
                      \* (listItems: also the page size asked for)
  pc,                 \* where the call is
  reqs,               \* every request issued by the call, in order
  inflight,           \* indices of reqs the provider has not answered yet
  awaiting,           \* index of the request the call awaits (0: none)
  results,            \* listItems: the items gathered so far
  continuationToken,  \* listItems: the token for the next page (0: undefined)
  allObjects,         \* copyFolder / moveItem: the listing
  i,                  \* copyFolder / moveItem: position of the for loop
  error,              \* what the call rejected with
  returned            \* what fileExists / listFolders resolved with ("none": nothing yet)

\* One sendRequest call in detail (SpecSend): its arguments, the request handed
\* to fetch, where the call is, its abort timer and how it settled.
VARIABLES
  args,               \* the caller, and sendRequest's arguments
  wire,               \* what was signed and what was handed to fetch
  spc,                \* where sendRequest and its caller are
  timer,              \* the abort timer: "none", "armed", "cleared", "fired"
  outcome             \* how sendRequest and its caller settled

\* Calls running concurrently on one client (SpecConc).
VARIABLES
  frames              \* the locals of each listItems call that is running

VARIABLES
  heap                \* the configuration objects, and which one is this.config

\* The main process (SpecConnect).
VARIABLES
  gcsClient           \* the client the command handlers use: null, or the
                      \* connect command that built it

vars == <<bucket, bucket0, op, pc, reqs, inflight, awaiting, results,
          continuationToken, allObjects, i, error, returned>>

sendVars == <<args, wire, spc, timer, outcome>>

allVars == <<vars, sendVars, frames, heap, gcsClient>>

\* let gcsClient: GcsClient | null = null
null == 0

\* fetch rejected (network failure, or the abort of the timeout): no status.
FetchFailed == 0

\* What a sendRequest call rejected with: the Error of line 101 ("http"), the
\* AbortError of the timeout ("abort"), or fetch's own failure ("network").
NoSendError == [kind |-> "none", status |-> FetchFailed, statusText |-> "", text |-> ""]

\* How sendRequest settled, the response it saw, and how its caller settled;
\* for downloadItemWithProgress also the content-length, whether the body is
\* read through a reader, the chunks read,
\* their bytes counted, the calls of onProgress and the buffer returned.
NoOutcome == [state |-> "none", status |-> FetchFailed, statusText |-> "",
              error |-> NoSendError, caller |-> "none", contentLength |-> 0, body |-> FALSE,
              reader |-> FALSE, chunks |-> <<>>, loaded |-> 0, progress |-> <<>>, buffer |-> <<>>]

\* The calls that may run concurrently, and the locals of a listItems call.
Procs == {1, 2}

NoFrame == [pc |-> "idle", prefix |-> <<>>, pageSize |-> 0, results |-> <<>>,
            continuationToken |-> 0, awaiting |-> 0]

NoFrames == <<NoFrame, NoFrame>>

\* No sendRequest call is looked at in detail.
SendIdle ==
  /\ args = "none"
  /\ wire = "none"
  /\ spc = "idle"
  /\ timer = "none"
  /\ outcome = NoOutcome

\* A parsed listing response (doc.ListBucketResult): root FALSE when the document
\* has no ListBucketResult; Contents are the keys of the page's items; IsTruncated
\* is the parsed value; NextContinuationToken 0 when absent or empty.
NoDoc == [root |-> FALSE, Contents |-> <<>>, CommonPrefixes |-> <<>>,
          IsTruncated |-> "boolean:false", NextContinuationToken |-> 0]

NoError == [kind |-> "none", req |-> 0]

\* ------------------------------------------------------------- construction

\* A string that is taken apart or put together is a sequence of characters.
\* Endpoints without and with the trailing slash, and one with a path.
ServiceUrls ==
  { <<"h", ":", "/", "/", "s">>,
    <<"h", ":", "/", "/", "s", "/">>,
    <<"h", ":", "/", "/", "s", "/", "p">>,
    <<"h", ":", "/", "/", "s", "/", "p", "/">> }

\* The configuration of the tests, with the endpoint lacking its slash.
TestConfig ==
  [serviceUrl |-> <<"h", ":", "/", "/", "s">>, bucketName |-> <<"b">>,
   accessId |-> "GOOG1ACCESS", secret |-> "secret", basePath |-> <<>>,
   timeout |-> 30000]

\* A variant that appends the slash whatever the endpoint ends with.
withTrailingSlashAlways(serviceUrl) == Append(serviceUrl, "/")

\* if (!serviceUrl.endsWith('/')) serviceUrl += '/'
withTrailingSlash(serviceUrl) ==
  LET endsWith == Len(serviceUrl) > 0 /\ serviceUrl[Len(serviceUrl)] = "/"
  IN  IF ~endsWith THEN Append(serviceUrl, "/") ELSE serviceUrl

\* A variant that keeps the reference instead of copying the object.
spreadKeepsReference(objects, ref) == [objects |-> objects, ref |-> ref]

\* { ...config }: a new object with the own properties of the object at ref.
\* Every property of the configuration is a string or a number.
spread(objects, ref) ==
  [objects |-> Append(objects, objects[ref]), ref |-> Len(objects) + 1]

\* new GcsClient(config), config being the object at ref: the heap afterwards.
constructor(objects, ref) ==
  LET copy == spread(objects, ref)
  IN  [objects |-> [copy.objects EXCEPT ![copy.ref].serviceUrl =
                      withTrailingSlash(@)],
       thisConfig |-> copy.ref]

NoOp == [name |-> "none", sourceKey |-> NoKey, destKey |-> NoKey,
         prefix |-> NoKey, pageSize |-> 0]

InitBuckets ==
  {S \in SUBSET InitKeys : Cardinality(S) <= MaxObjects}

Init ==
  /\ \E S \in InitBuckets : bucket = [k \in S |-> k]
  /\ bucket0 = bucket
  /\ op = NoOp
  /\ pc = "idle"
  /\ reqs = <<>>
  /\ inflight = {}
  /\ awaiting = 0
  /\ results = <<>>
  /\ continuationToken = 0
  /\ allObjects = <<>>
  /\ i = 0
  /\ error = NoError
  /\ returned = "none"
  /\ SendIdle
  /\ frames = NoFrames /\ gcsClient = null
  /\ heap = constructor(<<TestConfig>>, 1)

\* ---------------------------------------------------------------- requests

\* A request as sendRequest sends it: the method, the key of the URL path and of
\* the canonical resource (NoKey: the bucket root of a listing), the source named
\* by the x-amz-copy-source header, and the query of a listing.  step names the
\* statement of the call that issued it.  state, status and doc are filled in
\* when the provider has answered.
sendRequest(method, key, copySource, query, step) ==
  [method |-> method, key |-> key, copySource |-> copySource,
   prefix |-> query.prefix, maxKeys |-> query.maxKeys, token |-> query.token,
   delimiter |-> query.delimiter,
   step |-> step, state |-> "pending", status |-> FetchFailed, doc |-> NoDoc]

NoQuery == [prefix |-> NoKey, maxKeys |-> 0, token |-> 0, delimiter |-> ""]

\* A variant of the test of the response: every status that is not ok throws.
sendRequestThrowsOnEvery404(method, status) ==
  status = FetchFailed \/ ~(status \in 200..299)

\* !response.ok && !(DELETE && 404) && !(HEAD && 404), or fetch itself rejected.
sendRequestThrowsIgnoringStatus(method, status) == status = FetchFailed

sendRequestThrows(method, status) ==
  \/ status = FetchFailed
  \/ /\ ~(status \in 200..299)
     /\ ~(method = "DELETE" /\ status = 404)
     /\ ~(method = "HEAD" /\ status = 404)

\* if (pageSize <= 0 || pageSize > 1000) pageSize = 1000
DefaultPageSize == 1000

clampPageSizeMissing(pageSize) == pageSize

clampPageSize(pageSize) ==
  IF pageSize <= 0 \/ pageSize > DefaultPageSize THEN DefaultPageSize ELSE pageSize

\* The query of one page request: prefix and continuation-token are sent only
\* when they are truthy (NoKey and 0 stand for the parameter being left out).
listQueryDropsPrefix(prefix, pageSize, token) ==
  [prefix |-> IF token # 0 THEN NoKey ELSE prefix, maxKeys |-> pageSize, token |-> token,
   delimiter |-> ""]

listQuery(prefix, pageSize, token) ==
  [prefix |-> prefix, maxKeys |-> pageSize, token |-> token, delimiter |-> ""]

\* A variant of listFolders' query without the delimiter.
foldersQueryUndelimited(prefix) ==
  [prefix |-> prefix, maxKeys |-> DefaultPageSize, token |-> 0, delimiter |-> ""]

\* listFolders: ['list-type=2', 'max-keys=1000', 'delimiter=/'], and the
\* prefix when it is truthy.
foldersQuery(prefix) ==
  [prefix |-> prefix, maxKeys |-> DefaultPageSize, token |-> 0, delimiter |-> "/"]

listRequest(prefix, pageSize, token) ==
  sendRequest("GET", NoKey, NoKey, listQuery(prefix, pageSize, token), "list")

\* copyItem(sourceKey, destKey): PUT to the destination, naming the source.
copyItemSwapped(sourceKey, destKey, step) ==
  sendRequest("PUT", sourceKey, destKey, NoQuery, step)

copyItem(sourceKey, destKey, step) ==
  sendRequest("PUT", destKey, sourceKey, NoQuery, step)

deleteItem(objectName, step) ==
  sendRequest("DELETE", objectName, NoKey, NoQuery, step)

\* relativePath = obj.key.slice(sourceKey.length); newKey = destKey + relativePath
newKeyKeepsPrefix(objKey, sourceKey, destKey) == destKey \o objKey

newKey(objKey, sourceKey, destKey) == destKey \o slice(objKey, Len(sourceKey))

\* isTruncated = root.IsTruncated === true || root.IsTruncated === 'true'
isTruncatedWithoutEnd(root) == TRUE

isTruncated(root) ==
  root.IsTruncated = "boolean:true" \/ root.IsTruncated = "string:true"

\* for (const item of contents) results.push({ key: item.Key, ... })
pushContentsReplaces(res, root) == root.Contents

pushContents(res, root) == res \o root.Contents

\* `await`: the call does not go on before the awaited request has settled.
AwaitDoneMissing(r) == TRUE

AwaitDone(r) == r \notin inflight

Rejected(r) == reqs[r].state = "rejected"

\* catch { } around the folder-marker step: the call goes on to its end.
swallowRethrows(r) == "rejected"

swallow(r) == "resolved"

\* ---------------------------------------------------------------- provider

\* The keys the provider lists for a prefix, in its order.
Listing(b, prefix) == SortKeys({k \in DOMAIN b : startsWith(k, prefix)})

\* The pages the provider may answer a listing request with: the token names
\* the position to go on from; a page holds at most max-keys items and at least
\* one when items are left; a truncated page carries the next position as its
\* token, or (a protocol violation) none; the document may lack its root.
ListDocs(req, b) ==
  LET all == Listing(b, req.prefix)
      from == IF req.token = 0 THEN 0 ELSE Min(req.token - 1, Len(all))
      left == Len(all) - from
      counts == IF left = 0 THEN {0} ELSE 1..Min(req.maxKeys, left)
  IN  {NoDoc} \cup
      UNION {
        IF from + n < Len(all)
        THEN {[root |-> TRUE, Contents |-> SubSeq(all, from + 1, from + n),
               CommonPrefixes |-> <<>>,
               IsTruncated |-> t, NextContinuationToken |-> tok] :
                 t \in {"boolean:true", "string:true"}, tok \in {from + n + 1, 0}}
        ELSE {[root |-> TRUE, Contents |-> SubSeq(all, from + 1, from + n),
               CommonPrefixes |-> <<>>,
               IsTruncated |-> "boolean:false", NextContinuationToken |-> 0]}
        : n \in counts}

\* The pages the provider may answer a delimited listing with: the keys under
\* the prefix that hold no further '/' as Contents, the prefixes up to the next
\* '/' of the others as CommonPrefixes; the whole of it, or a truncated part
\* with a token; the document may lack its root.
FolderDocs(req, b) ==
  LET all == Listing(b, req.prefix)
      rest(k) == SubSeq(k, Len(req.prefix) + 1, Len(k))
      nested(k) == \E j \in 1..Len(rest(k)) : rest(k)[j] = "/"
      upToSlash(k) ==
        LET at == CHOOSE j \in 1..Len(rest(k)) :
                     rest(k)[j] = "/" /\ \A m \in 1..(j - 1) : rest(k)[m] # "/"
        IN  SubSeq(k, 1, Len(req.prefix) + at)
      direct == SelectSeq(all, LAMBDA k : ~nested(k))
      prefixes == SortKeys({upToSlash(all[j]) : j \in {m \in 1..Len(all) : nested(all[m])}})
  IN  {NoDoc,
       [root |-> TRUE, Contents |-> direct, CommonPrefixes |-> prefixes,
        IsTruncated |-> "boolean:false", NextContinuationToken |-> 0]}
      \cup
      {[root |-> TRUE, Contents |-> SubSeq(direct, 1, n),
        CommonPrefixes |-> SubSeq(prefixes, 1, m),
        IsTruncated |-> "boolean:true", NextContinuationToken |-> n + m + 1] :
          n \in {c \in 0..Len(direct) : c < Len(direct) \/ Len(prefixes) > 0},
          m \in {c \in 0..Len(prefixes) : c < Len(prefixes)}}

\* What the provider may do with a request: the status it answers (FetchFailed:
\* no answer reaches the client), whether the request took effect, and the
\* document of a listing.
Outcomes(req, b) ==
  LET answers(S) == {[status |-> st, applied |-> FALSE, doc |-> NoDoc] : st \in S}
      effects(st) == {[status |-> st, applied |-> TRUE, doc |-> NoDoc],
                      [status |-> 500, applied |-> FALSE, doc |-> NoDoc],
                      [status |-> FetchFailed, applied |-> TRUE, doc |-> NoDoc],
                      [status |-> FetchFailed, applied |-> FALSE, doc |-> NoDoc]}
  IN  IF req.method = "GET" /\ req.key = NoKey
      THEN {[status |-> 200, applied |-> FALSE, doc |-> d] :
              d \in IF req.delimiter = "/" THEN FolderDocs(req, b) ELSE ListDocs(req, b)}
           \cup answers({500, FetchFailed})
      ELSE IF req.method \in {"GET", "HEAD"}
      THEN IF req.key \in DOMAIN b
           THEN answers({200, 204, 500, FetchFailed})
           ELSE answers({204, 404, 500, FetchFailed})
      ELSE IF req.method = "PUT"
      THEN IF req.copySource = NoKey \/ req.copySource \in DOMAIN b
           THEN effects(200)
           ELSE answers({404, 500, FetchFailed})
      ELSE IF req.key \in DOMAIN b
           THEN effects(204)
           ELSE answers({204, 404, 500, FetchFailed})

\* The content an upload writes.
Uploaded == <<"n", "e", "w">>

\* The bucket after the request took effect: an upload writes its content and a
\* copy the source's content to the key, a DELETE removes the key.
Applied(req, b) ==
  IF req.method = "PUT"
  THEN [k \in DOMAIN b \cup {req.key} |->
          IF k # req.key THEN b[k]
          ELSE IF req.copySource = NoKey THEN Uploaded ELSE b[req.copySource]]
  ELSE IF req.method = "DELETE"
  THEN [k \in DOMAIN b \ {req.key} |-> b[k]]
  ELSE b

\* The provider answers request r, and sendRequest resolves or rejects.
fetch(r) ==
  /\ r \in inflight
  /\ \E o \in Outcomes(reqs[r], bucket) :
       /\ bucket' = IF o.applied THEN Applied(reqs[r], bucket) ELSE bucket
       /\ reqs' = [reqs EXCEPT ![r] =
                     [@ EXCEPT !.status = o.status, !.doc = o.doc,
                               !.state = IF sendRequestThrows(reqs[r].method, o.status)
                                         THEN "rejected" ELSE "resolved"]]
  /\ inflight' = inflight \ {r}
  /\ UNCHANGED <<bucket0, op, pc, awaiting, results, continuationToken, allObjects, i, error>>
  /\ UNCHANGED <<returned, sendVars, frames, heap, gcsClient>>

\* ------------------------------------------------------------------ client

\* Issue a request and suspend on it.
Await(req) ==
  /\ reqs' = Append(reqs, req)
  /\ inflight' = inflight \cup {Len(reqs) + 1}
  /\ awaiting' = Len(reqs) + 1

NoAwait == UNCHANGED <<reqs, inflight, awaiting>>

\* The call rejects: nothing catches the error.
ThrowAfterRetry(e) ==
  IF e.kind = "request" /\ (e.req = 1 \/ reqs[e.req - 1].step # reqs[e.req].step)
  THEN /\ reqs' = Append(reqs, [reqs[e.req] EXCEPT !.state = "pending",
                                                   !.status = FetchFailed, !.doc = NoDoc])
       /\ inflight' = inflight \cup {Len(reqs) + 1}
       /\ awaiting' = Len(reqs) + 1
       /\ UNCHANGED <<pc, error>>
  ELSE /\ pc' = "rejected"
       /\ error' = e
       /\ NoAwait

Throw(e) ==
  /\ pc' = "rejected"
  /\ error' = e
  /\ NoAwait

RequestError(r) == [kind |-> "request", req |-> r]

\* 'Response is truncated but no NextContinuationToken was provided.'
ProtocolError(r) == [kind |-> "no-token", req |-> r]

\* listItems up to its first await: clamp the page size, empty results, no token.
listItemsStart(prefix) ==
  /\ results' = <<>>
  /\ continuationToken' = 0
  /\ Await(listRequest(prefix, op'.pageSize, 0))
  /\ pc' = "listItems"

\* listItems returns res to its caller: the public call resolves with it, or
\* copyFolder / moveItem go on to their for loop over it.
listItemsReturn(res) ==
  /\ results' = res
  /\ IF op.name = "listItems"
     THEN pc' = "resolved" /\ UNCHANGED <<allObjects, i>>
     ELSE pc' = "loop" /\ allObjects' = res /\ i' = 1
  /\ UNCHANGED <<continuationToken, error>>
  /\ NoAwait

listItemsCall(prefix, pageSize) ==
  /\ pc = "idle"
  /\ op' = [name |-> "listItems", sourceKey |-> NoKey, destKey |-> NoKey,
            prefix |-> prefix, pageSize |-> clampPageSize(pageSize),
            requested |-> pageSize]
  /\ listItemsStart(prefix)
  /\ UNCHANGED <<bucket, bucket0, allObjects, i, error>>
  /\ UNCHANGED <<returned, sendVars, frames, heap, gcsClient>>

\* One turn of listItems' while loop, from the response to the next await.
listItemsPage ==
  /\ pc = "listItems"
  /\ AwaitDone(awaiting)
  /\ LET root == reqs[awaiting].doc
         pushed == pushContents(results, root)
     IN  IF Rejected(awaiting)
         THEN /\ Throw(RequestError(awaiting))
              /\ UNCHANGED <<results, continuationToken, allObjects, i>>
         ELSE IF ~root.root
         THEN listItemsReturn(results)
         ELSE IF ~isTruncated(root)
         THEN listItemsReturn(pushed)
         ELSE IF root.NextContinuationToken = 0
         THEN /\ results' = pushed
              /\ continuationToken' = 0
              /\ Throw(ProtocolError(awaiting))
              /\ UNCHANGED <<allObjects, i>>
         ELSE /\ results' = pushed
              /\ continuationToken' = root.NextContinuationToken
              /\ Await(listRequest(op.prefix, op.pageSize, root.NextContinuationToken))
              /\ UNCHANGED <<pc, allObjects, i, error>>
  /\ UNCHANGED <<bucket, bucket0, op>>
  /\ UNCHANGED <<returned, sendVars, frames, heap, gcsClient>>

copyFolderCall(sourceKey, destKey) ==
  /\ pc = "idle"
  /\ op' = [name |-> "copyFolder", sourceKey |-> sourceKey, destKey |-> destKey,
            prefix |-> sourceKey, pageSize |-> clampPageSize(DefaultPageSize)]
  /\ listItemsStart(sourceKey)
  /\ UNCHANGED <<bucket, bucket0, allObjects, i, error>>
  /\ UNCHANGED <<returned, sendVars, frames, heap, gcsClient>>

\* for (const obj of allObjects) await copyItem(obj.key, newKey); then the marker.
copyFolderLoop ==
  /\ pc = "loop"
  /\ op.name = "copyFolder"
  /\ IF i <= Len(allObjects)
     THEN /\ Await(copyItem(allObjects[i], newKey(allObjects[i], op.sourceKey, op.destKey), "copy"))
          /\ pc' = "loopCopy"
     ELSE /\ Await(copyItem(op.sourceKey, op.destKey, "markerCopy"))
          /\ pc' = "markerCopy"
  /\ UNCHANGED <<bucket, bucket0, op, results, continuationToken, allObjects, i, error>>
  /\ UNCHANGED <<returned, sendVars, frames, heap, gcsClient>>

copyFolderCopied ==
  /\ pc = "loopCopy"
  /\ op.name = "copyFolder"
  /\ AwaitDone(awaiting)
  /\ IF Rejected(awaiting)
     THEN Throw(RequestError(awaiting)) /\ UNCHANGED i
     ELSE pc' = "loop" /\ i' = i + 1 /\ NoAwait /\ UNCHANGED error
  /\ UNCHANGED <<bucket, bucket0, op, results, continuationToken, allObjects>>
  /\ UNCHANGED <<returned, sendVars, frames, heap, gcsClient>>

copyFolderMarkerCopied ==
  /\ pc = "markerCopy"
  /\ op.name = "copyFolder"
  /\ AwaitDone(awaiting)
  /\ pc' = IF Rejected(awaiting) THEN swallow(awaiting) ELSE "resolved"
  /\ error' = IF pc' = "rejected" THEN RequestError(awaiting) ELSE error
  /\ NoAwait
  /\ UNCHANGED <<bucket, bucket0, op, results, continuationToken, allObjects, i>>
  /\ UNCHANGED <<returned, sendVars, frames, heap, gcsClient>>

moveItemCall(sourceKey, destKey) ==
  /\ pc = "idle"
  /\ op' = [name |-> "moveItem", sourceKey |-> sourceKey, destKey |-> destKey,
            prefix |-> sourceKey, pageSize |-> clampPageSize(DefaultPageSize)]
  /\ IF endsWithSlash(sourceKey)
     THEN listItemsStart(sourceKey)
     ELSE /\ Await(copyItem(sourceKey, destKey, "copy"))
          /\ pc' = "fileCopy"
          /\ UNCHANGED <<results, continuationToken>>
  /\ UNCHANGED <<bucket, bucket0, allObjects, i, error>>
  /\ UNCHANGED <<returned, sendVars, frames, heap, gcsClient>>

\* for (const obj of allObjects) { await copyItem(...); await deleteItem(...) }
moveItemLoop ==
  /\ pc = "loop"
  /\ op.name = "moveItem"
  /\ IF i <= Len(allObjects)
     THEN /\ Await(copyItem(allObjects[i], newKey(allObjects[i], op.sourceKey, op.destKey), "copy"))
          /\ pc' = "loopCopy"
     ELSE /\ Await(copyItem(op.sourceKey, op.destKey, "markerCopy"))
          /\ pc' = "markerCopy"
  /\ UNCHANGED <<bucket, bucket0, op, results, continuationToken, allObjects, i, error>>
  /\ UNCHANGED <<returned, sendVars, frames, heap, gcsClient>>

moveItemCopied ==
  /\ pc = "loopCopy"
  /\ op.name = "moveItem"
  /\ AwaitDone(awaiting)
  /\ IF Rejected(awaiting)
     THEN Throw(RequestError(awaiting))
     ELSE /\ Await(deleteItem(allObjects[i], "delete"))
          /\ pc' = "loopDelete"
          /\ UNCHANGED error
  /\ UNCHANGED <<bucket, bucket0, op, results, continuationToken, allObjects, i>>
  /\ UNCHANGED <<returned, sendVars, frames, heap, gcsClient>>

moveItemDeleted ==
  /\ pc = "loopDelete"
  /\ AwaitDone(awaiting)
  /\ IF Rejected(awaiting)
     THEN Throw(RequestError(awaiting)) /\ UNCHANGED i
     ELSE pc' = "loop" /\ i' = i + 1 /\ NoAwait /\ UNCHANGED error
  /\ UNCHANGED <<bucket, bucket0, op, results, continuationToken, allObjects>>
  /\ UNCHANGED <<returned, sendVars, frames, heap, gcsClient>>

moveItemMarkerCopied ==
  /\ pc = "markerCopy"
  /\ op.name = "moveItem"
  /\ AwaitDone(awaiting)
  /\ IF Rejected(awaiting)
     THEN /\ pc' = swallow(awaiting)
          /\ error' = IF pc' = "rejected" THEN RequestError(awaiting) ELSE error
          /\ NoAwait
     ELSE /\ Await(deleteItem(op.sourceKey, "markerDelete"))
          /\ pc' = "markerDelete"
          /\ UNCHANGED error
  /\ UNCHANGED <<bucket, bucket0, op, results, continuationToken, allObjects, i>>
  /\ UNCHANGED <<returned, sendVars, frames, heap, gcsClient>>

moveItemMarkerDeleted ==
  /\ pc = "markerDelete"
  /\ AwaitDone(awaiting)
  /\ pc' = IF Rejected(awaiting) THEN swallow(awaiting) ELSE "resolved"
  /\ error' = IF pc' = "rejected" THEN RequestError(awaiting) ELSE error
  /\ NoAwait
  /\ UNCHANGED <<bucket, bucket0, op, results, continuationToken, allObjects, i>>
  /\ UNCHANGED <<returned, sendVars, frames, heap, gcsClient>>

\* else branch: await copyItem(sourceKey, destKey); await deleteItem(sourceKey)
moveItemFileCopied ==
  /\ pc = "fileCopy"
  /\ AwaitDone(awaiting)
  /\ IF Rejected(awaiting)
     THEN Throw(RequestError(awaiting))
     ELSE /\ Await(deleteItem(op.sourceKey, "delete"))
          /\ pc' = "fileDelete"
          /\ UNCHANGED error
  /\ UNCHANGED <<bucket, bucket0, op, results, continuationToken, allObjects, i>>
  /\ UNCHANGED <<returned, sendVars, frames, heap, gcsClient>>

moveItemFileDeleted ==
  /\ pc = "fileDelete"
  /\ AwaitDone(awaiting)
  /\ IF Rejected(awaiting)
     THEN Throw(RequestError(awaiting))
     ELSE pc' = "resolved" /\ NoAwait /\ UNCHANGED error
  /\ UNCHANGED <<bucket, bucket0, op, results, continuationToken, allObjects, i>>
  /\ UNCHANGED <<returned, sendVars, frames, heap, gcsClient>>

\* The keys the single-request calls are made with: one that may exist and
\* one that does not.
ItemKeys == {Kx, Ky}

\* A public call of one request, up to its await.
itemCall(name, sourceKey, destKey, req) ==
  /\ op' = [name |-> name, sourceKey |-> sourceKey, destKey |-> destKey,
            prefix |-> NoKey, pageSize |-> 0]
  /\ pc' = IF name = "fileExists" THEN "head" ELSE "item"
  /\ Await(req)
  /\ UNCHANGED <<bucket, bucket0, results, continuationToken, allObjects, i, error>>
  /\ UNCHANGED <<returned, sendVars, frames, heap, gcsClient>>

uploadItemCall(objectName) ==
  /\ pc = "idle"
  /\ itemCall("uploadItem", objectName, NoKey,
              sendRequest("PUT", objectName, NoKey, NoQuery, "upload"))

downloadItemCall(objectName) ==
  /\ pc = "idle"
  /\ itemCall("downloadItem", objectName, NoKey,
              sendRequest("GET", objectName, NoKey, NoQuery, "download"))

deleteItemCall(objectName) ==
  /\ pc = "idle"
  /\ itemCall("deleteItem", objectName, NoKey, deleteItem(objectName, "delete"))

copyItemCall(sourceKey, destKey) ==
  /\ pc = "idle"
  /\ itemCall("copyItem", sourceKey, destKey, copyItem(sourceKey, destKey, "copy"))

fileExistsCall(objectName) ==
  /\ pc = "idle"
  /\ itemCall("fileExists", objectName, NoKey,
              sendRequest("HEAD", objectName, NoKey, NoQuery, "head"))

\* await this.sendRequest(...) of uploadItem, downloadItem, deleteItem, copyItem.
itemSettled ==
  /\ pc = "item"
  /\ AwaitDone(awaiting)
  /\ IF Rejected(awaiting)
     THEN Throw(RequestError(awaiting))
     ELSE pc' = "resolved" /\ NoAwait /\ UNCHANGED error
  /\ UNCHANGED <<bucket, bucket0, op, results, continuationToken, allObjects, i>>
  /\ UNCHANGED <<returned, sendVars, frames, heap, gcsClient>>

\* A variant of listFolders' loop without the check against the prefix.
objectsOfUnfiltered(contents, prefix) == contents

\* listFolders: the Contents gathered, an item whose Key is the prefix skipped.
objectsOf(contents, prefix) == SelectSeq(contents, LAMBDA key : key # prefix)

\* listFolders up to its await: one request, delimited, of at most 1000 keys.
listFoldersCall(prefix) ==
  /\ pc = "idle"
  /\ op' = [name |-> "listFolders", sourceKey |-> NoKey, destKey |-> NoKey,
            prefix |-> prefix, pageSize |-> DefaultPageSize]
  /\ Await(sendRequest("GET", NoKey, NoKey, foldersQuery(prefix), "folders"))
  /\ pc' = "listFolders"
  /\ UNCHANGED <<bucket, bucket0, results, continuationToken, allObjects, i, error>>
  /\ UNCHANGED <<returned, sendVars, frames, heap, gcsClient>>

\* listFolders from the response to its return.
listFoldersSettled ==
  LET root == reqs[awaiting].doc
  IN  /\ pc = "listFolders"
      /\ AwaitDone(awaiting)
      /\ IF Rejected(awaiting)
         THEN Throw(RequestError(awaiting)) /\ UNCHANGED returned
         ELSE /\ returned' = IF root.root
                             THEN [objects |-> objectsOf(root.Contents, op.prefix),
                                   folders |-> root.CommonPrefixes]
                             ELSE [objects |-> <<>>, folders |-> <<>>]
              /\ pc' = "resolved"
              /\ NoAwait
              /\ UNCHANGED error
      /\ UNCHANGED <<bucket, bucket0, op, results, continuationToken, allObjects, i>>
      /\ UNCHANGED <<sendVars, frames, heap, gcsClient>>

\* return response.status === 200
fileExistsResultOk(status) == IF status \in 200..299 THEN "true" ELSE "false"

fileExistsResult(status) == IF status = 200 THEN "true" ELSE "false"

\* fileExists: the HEAD settled; a rejection is caught.
fileExistsSettled ==
  /\ pc = "head"
  /\ AwaitDone(awaiting)
  /\ returned' = IF Rejected(awaiting) THEN "false"
                 ELSE fileExistsResult(reqs[awaiting].status)
  /\ pc' = "resolved"
  /\ NoAwait
  /\ UNCHANGED <<bucket, bucket0, op, results, continuationToken, allObjects, i, error>>
  /\ UNCHANGED <<sendVars, frames, heap, gcsClient>>

Next ==
  \/ \E p \in Prefixes, n \in PageSizes : listItemsCall(p, n)
  \/ listItemsPage
  \/ \E s \in FolderKeys, d \in FolderDestKeys : copyFolderCall(s, d)
  \/ copyFolderLoop
  \/ copyFolderCopied
  \/ copyFolderMarkerCopied
  \/ \E s \in SourceKeys, d \in DestKeys : moveItemCall(s, d)
  \/ moveItemLoop
  \/ moveItemCopied
  \/ moveItemDeleted
  \/ moveItemMarkerCopied
  \/ moveItemMarkerDeleted
  \/ moveItemFileCopied
  \/ moveItemFileDeleted
  \/ \E k \in ItemKeys : uploadItemCall(k)
  \/ \E k \in ItemKeys : downloadItemCall(k)
  \/ \E k \in ItemKeys : deleteItemCall(k)
  \/ \E s \in ItemKeys, d \in ItemKeys : copyItemCall(s, d)
  \/ \E k \in ItemKeys : fileExistsCall(k)
  \/ itemSettled
  \/ fileExistsSettled
  \/ \E p \in Prefixes : listFoldersCall(p)
  \/ listFoldersSettled
  \/ \E r \in inflight : fetch(r)

Spec == Init /\ [][Next]_allVars

\* ------------------------------------------------------------------ claims

\* What the claims say of a call, stated apart from the operators of the model.
IsMove == op.name = "moveItem"
IsFolderMove == op.name = "moveItem" /\ op.sourceKey # <<>> /\ op.sourceKey[Len(op.sourceKey)] = "/"
IsFileMove == op.name = "moveItem" /\ ~IsFolderMove
IsCopyFolder == op.name = "copyFolder"
IsComposite == IsCopyFolder \/ IsFolderMove
Settled == pc \in {"resolved", "rejected"}

\* The objects under the source when the call started, and where each goes.
UnderSource(k) ==
  /\ Len(op.sourceKey) <= Len(k)
  /\ \A j \in 1..Len(op.sourceKey) : k[j] = op.sourceKey[j]
SourceObjects ==
  IF IsFileMove THEN {k \in DOMAIN bucket0 : k = op.sourceKey}
  ELSE {k \in DOMAIN bucket0 : UnderSource(k)}
Remapped(k) == op.destKey \o SubSeq(k, Len(op.sourceKey) + 1, Len(k))
DestinationKeys == {Remapped(k) : k \in SourceObjects}
Holds(k, content) == k \in DOMAIN bucket /\ bucket[k] = content

IsCopyOf(req, source, dest) ==
  req.method = "PUT" /\ req.key = dest /\ req.copySource = source
IsDeleteOf(req, key) ==
  req.method = "DELETE" /\ req.key = key /\ req.copySource = <<>>

\* The listing requests open the log; Listed is their number.
Listed == Cardinality({r \in 1..Len(reqs) : reqs[r].method = "GET"})
After(j) == reqs[Listed + j]
Steps == Len(reqs) - Listed

\* C1: during moveItem, and after a failure at any step, every object that was
\* under the source when the move started is still held, with its original
\* content, at its source key or at its remapped destination key, provided the
\* destination keys are disjoint from the source keys; and a DELETE of a key is
\* issued only directly after the copy of that key to its destination resolved.
C1_SourceKeptOrMoved ==
  IsMove =>
    /\ (DestinationKeys \cap SourceObjects = {}) =>
         \A k \in SourceObjects : Holds(k, bucket0[k]) \/ Holds(Remapped(k), bucket0[k])
    /\ \A r \in 1..Len(reqs) :
         reqs[r].method = "DELETE" =>
           /\ r > 1
           /\ IsCopyOf(reqs[r - 1], reqs[r].key, Remapped(reqs[r].key))
           /\ reqs[r - 1].state = "resolved"

\* C1 witness: a folder move failed half way: one object is held only at its
\* destination, another only at its source.
C1_Witness ==
  /\ IsFolderMove /\ pc = "rejected"
  /\ DestinationKeys \cap SourceObjects = {}
  /\ \E k1, k2 \in SourceObjects :
       /\ k1 \notin DOMAIN bucket /\ Holds(Remapped(k1), bucket0[k1])
       /\ Holds(k2, bucket0[k2]) /\ Remapped(k2) \notin DOMAIN bucket

\* C2: moveItem for a key that does not end in '/' issues one copy (PUT to the
\* destination naming the source) and then one DELETE of the source, the DELETE
\* only after the copy resolved; it resolves only when both resolved and rejects
\* when either rejected.
C2_FileMoveCopyThenDelete ==
  IsFileMove =>
    /\ Len(reqs) \in 1..2
    /\ IsCopyOf(reqs[1], op.sourceKey, op.destKey)
    /\ Len(reqs) = 2 => IsDeleteOf(reqs[2], op.sourceKey) /\ reqs[1].state = "resolved"
    /\ reqs[1].state = "rejected" /\ pc # "fileCopy" => pc = "rejected"
    /\ Len(reqs) = 2 /\ reqs[2].state = "rejected" /\ pc # "fileDelete" => pc = "rejected"
    /\ pc = "resolved" => Len(reqs) = 2 /\ \A r \in 1..2 : reqs[r].state = "resolved"
    /\ pc = "rejected" => reqs[Len(reqs)].state = "rejected"

\* C2 witness: a file move resolved after its copy and its DELETE.
C2_Witness ==
  /\ IsFileMove /\ pc = "resolved" /\ Len(reqs) = 2
  /\ op.sourceKey \notin DOMAIN bucket /\ op.destKey \in DOMAIN bucket

\* C3: a folder moveItem whose listing returned o1..oN issues, after the listing,
\* copy(o1 -> destKey + rest of o1), delete(o1), ..., copy(oN -> ...), delete(oN)
\* in listing order, each only after the one before resolved, and only after all
\* of them the marker copy(source -> dest) and then the marker delete(source);
\* when it resolves the 2N per-object requests and the marker copy were issued.
C3_FolderMoveOrder ==
  IsFolderMove /\ pc \notin {"idle", "listItems"} =>
    LET N == Len(allObjects) IN
    /\ Steps <= 2 * N + 2
    /\ \A j \in 1..Steps :
         /\ j <= 2 * N /\ j % 2 = 1 =>
              IsCopyOf(After(j), allObjects[(j + 1) \div 2], Remapped(allObjects[(j + 1) \div 2]))
         /\ j <= 2 * N /\ j % 2 = 0 => IsDeleteOf(After(j), allObjects[j \div 2])
         /\ j = 2 * N + 1 => IsCopyOf(After(j), op.sourceKey, op.destKey)
         /\ j = 2 * N + 2 => IsDeleteOf(After(j), op.sourceKey)
         /\ j > 1 => After(j - 1).state = "resolved"
    /\ pc = "resolved" => Steps >= 2 * N + 1

\* C3 witness: a folder move of two listed objects reached its marker copy.
C3_Witness ==
  /\ IsFolderMove /\ Len(allObjects) = 2 /\ Steps = 5
  /\ allObjects[1] # op.sourceKey /\ allObjects[2] # op.sourceKey

\* C4: within one copyFolder or folder moveItem at most one request is in
\* flight, and no request is issued before every earlier one has completed.
C4_OneRequestAtATime ==
  IsComposite =>
    /\ Cardinality(inflight) <= 1
    /\ \A r \in 1..Len(reqs) : reqs[r].state = "pending" => r = Len(reqs) /\ inflight = {r}

\* C4 witness: the copy of the second listed object is in flight, everything
\* before it has completed.
C4_Witness ==
  /\ IsComposite /\ pc = "loopCopy" /\ i = 2 /\ inflight = {Len(reqs)}

\* A request the provider did not answer with success: no response, or a status
\* outside 2xx other than the 404 of a DELETE.
FailedResponse(req) ==
  /\ req.state # "pending"
  /\ \/ req.status = 0
     \/ /\ ~(req.status \in 200..299)
        /\ ~(req.method = "DELETE" /\ req.status = 404)
IsMarkerStep(req) == req.step \in {"markerCopy", "markerDelete"}

\* C5: when the listing or a per-object copy or delete of copyFolder or folder
\* moveItem fails, the call rejects with that error and the failed request stays
\* the last of the log: no later object, no marker step, no rollback; once the
\* call has rejected, no request is in flight and nothing more happens, so the
\* bucket stays as the requests before the failure left it.
C5_FailFast ==
  IsComposite =>
    /\ \A r \in 1..Len(reqs) :
         ~IsMarkerStep(reqs[r]) /\ FailedResponse(reqs[r]) =>
           /\ r = Len(reqs)
           /\ pc \in {"listItems", "loopCopy", "loopDelete", "rejected"}
           /\ pc = "rejected" => error = [kind |-> "request", req |-> r]
    /\ pc = "rejected" =>
         /\ inflight = {}
         /\ error.req = Len(reqs)
         /\ \A r \in 1..Len(reqs) : ~IsMarkerStep(reqs[r])
         /\ error.kind = "no-token" =>
              reqs[Len(reqs)].doc.root /\ reqs[Len(reqs)].doc.NextContinuationToken = 0
         /\ ~ENABLED Next

\* C5 witness: a composite call rejected at its second object, after the first
\* object's requests changed the bucket.
C5_Witness ==
  /\ IsComposite /\ pc = "rejected" /\ i = 2
  /\ bucket # bucket0
  /\ FailedResponse(reqs[Len(reqs)])

\* C6: a failure of the folder-marker step never fails copyFolder or a folder
\* moveItem: a call that rejected has issued no marker request and has a failed
\* listing or per-object request, so once the marker copy (and, in moveItem, the
\* marker delete) has settled, whatever its outcome, the call resolves; the
\* marker delete is issued only directly after the marker copy resolved.
C6_MarkerFailureSwallowed ==
  IsComposite =>
    /\ pc = "rejected" =>
         /\ \A r \in 1..Len(reqs) : ~IsMarkerStep(reqs[r])
         /\ \/ error.kind = "no-token"
            \/ FailedResponse(reqs[Len(reqs)])
    /\ \A r \in 1..Len(reqs) :
         /\ reqs[r].step = "markerDelete" =>
              /\ reqs[r - 1].step = "markerCopy"
              /\ reqs[r - 1].state = "resolved"
              /\ reqs[r - 1].status \in 200..299
         /\ reqs[r].step = "markerCopy" /\ FailedResponse(reqs[r]) /\ pc # "markerCopy" =>
              pc = "resolved" /\ r = Len(reqs)
         /\ IsMarkerStep(reqs[r]) /\ Settled => pc = "resolved"

\* C6 witness: a folder move resolved although its marker delete failed.
C6_Witness ==
  /\ IsFolderMove /\ pc = "resolved"
  /\ reqs[Len(reqs)].step = "markerDelete" /\ FailedResponse(reqs[Len(reqs)])

\* C6 witness, copyFolder: resolved although the marker copy failed.
C6_WitnessCopy ==
  /\ IsCopyFolder /\ pc = "resolved"
  /\ reqs[Len(reqs)].step = "markerCopy" /\ FailedResponse(reqs[Len(reqs)])

\* The requests of copyFolder: after the listing one copy per listed object, in
\* listing order, to destKey + the key without the source prefix, then the
\* marker copy; never a DELETE.
CopyFolderRequests ==
  /\ \A r \in 1..Len(reqs) : reqs[r].method # "DELETE"
  /\ pc \notin {"idle", "listItems"} =>
       /\ Steps <= Len(allObjects) + 1
       /\ \A j \in 1..Steps :
            j <= Len(allObjects) => IsCopyOf(After(j), allObjects[j], Remapped(allObjects[j]))
       /\ pc = "resolved" => Steps = Len(allObjects) + 1

\* C7 as stated: copyFolder copies every listed object to its remapped key in
\* listing order, issues no DELETE, and every source object is unchanged
\* afterwards.
C7_Original ==
  IsCopyFolder =>
    /\ CopyFolderRequests
    /\ pc = "resolved" => \A k \in SourceObjects : Holds(k, bucket0[k])

\* C7 as amended: copyFolder copies every listed object to its remapped key in
\* listing order, issues no DELETE, and every source object whose key is not
\* itself one of the destination keys is unchanged afterwards.
C7_CopyFolderKeepsSources ==
  IsCopyFolder =>
    /\ CopyFolderRequests
    /\ pc = "resolved" =>
         \A k \in SourceObjects \ DestinationKeys : Holds(k, bucket0[k])

\* C7 witness: copyFolder resolved after copying two objects, and the sources
\* and their copies are all held.
C7_Witness ==
  /\ IsCopyFolder /\ pc = "resolved" /\ Len(allObjects) = 2
  /\ \A k \in SourceObjects : Holds(k, bucket0[k]) /\ Holds(Remapped(k), bucket0[k])
  /\ SourceObjects \cap DestinationKeys = {}
  /\ Cardinality(SourceObjects) = 2

\* The items of the page request r was answered with (none without a response
\* or without a ListBucketResult), and whether that response reports truncation.
PageItems(r) ==
  IF reqs[r].state = "resolved" /\ reqs[r].doc.root THEN reqs[r].doc.Contents ELSE <<>>
ReportsTruncated(r) ==
  /\ reqs[r].state = "resolved"
  /\ reqs[r].doc.root
  /\ reqs[r].doc.IsTruncated \in {"boolean:true", "string:true"}
ReportsNotTruncated(r) ==
  /\ reqs[r].state = "resolved"
  /\ reqs[r].doc.root
  /\ reqs[r].doc.IsTruncated = "boolean:false"

RECURSIVE ConcatPages(_)
ConcatPages(n) == IF n = 0 THEN <<>> ELSE ConcatPages(n - 1) \o PageItems(n)

RECURSIVE SumPages(_)
SumPages(n) == IF n = 0 THEN 0 ELSE SumPages(n - 1) + Len(PageItems(n))

IsListItems == op.name = "listItems"

\* C8: listItems requests a further page exactly after a response that reports
\* IsTruncated true, and its result is the concatenation of the items of all
\* pages in the order received: while it runs, results holds the pages consumed
\* so far; when it returns, the item count is the sum of the page counts, the
\* last response does not report truncation, and when every response carried a
\* ListBucketResult the result is the provider's listing, nothing dropped,
\* duplicated or reordered.
C8_ListItemsConcatenatesPages ==
  IsListItems =>
    /\ \A r \in 1..(Len(reqs) - 1) : ReportsTruncated(r)
    /\ pc = "listItems" => results = ConcatPages(Len(reqs) - 1)
    /\ pc # "listItems" =>
         ~(ReportsTruncated(Len(reqs)) /\ reqs[Len(reqs)].doc.NextContinuationToken # 0)
    /\ pc = "resolved" =>
         /\ results = ConcatPages(Len(reqs))
         /\ Len(results) = SumPages(Len(reqs))
         /\ ~ReportsTruncated(Len(reqs))
         /\ reqs[Len(reqs)].doc.root =>
              /\ results = Listing(bucket0, op.prefix)
              /\ \A a, b \in 1..Len(results) : a # b => results[a] # results[b]

\* C8 witness: listItems returned three items received in three pages.
C8_Witness ==
  /\ IsListItems /\ pc = "resolved"
  /\ Len(reqs) = 3 /\ Len(results) = 3
  /\ \A r \in 1..3 : Len(PageItems(r)) = 1

\* C9 as stated, for a listing of which a response reported truncation:
\* listItems returns normally only when the last response it received reported
\* that the listing is not truncated, and a truncated response without a
\* continuation token makes it throw, without another request.
C9_Original ==
  IsListItems =>
    /\ pc = "resolved" /\ (\E r \in 1..Len(reqs) : ReportsTruncated(r)) =>
         ReportsNotTruncated(Len(reqs))
    /\ Len(reqs) > 0 /\ ReportsTruncated(Len(reqs))
         /\ reqs[Len(reqs)].doc.NextContinuationToken = 0 =>
              pc \in {"listItems", "rejected"}

\* C9, the failing case: listItems returned the items of a truncated first page
\* although the listing holds more, after a second response without a
\* ListBucketResult.
C9_SilentlyTruncated ==
  /\ IsListItems /\ pc = "resolved" /\ Len(reqs) = 2
  /\ ReportsTruncated(1) /\ ~reqs[2].doc.root
  /\ Len(results) < Len(Listing(bucket0, op.prefix))

\* C10: the first page request of a call carries no continuation token, and every
\* later one carries the NextContinuationToken of the response just before it,
\* with the prefix and max-keys of the first.
C10_TokenChain ==
  \A r \in 1..Listed :
    /\ reqs[r].method = "GET"
    /\ r = 1 => reqs[r].token = 0 /\ reqs[r].prefix = op.prefix
    /\ r > 1 =>
         /\ reqs[r].token # 0
         /\ reqs[r].token = reqs[r - 1].doc.NextContinuationToken
         /\ reqs[r].prefix = reqs[1].prefix
         /\ reqs[r].maxKeys = reqs[1].maxKeys

\* C10 witness: a third page of a listing under a prefix was requested with the
\* token of the second response, which differs from the token of the first.
C10_Witness ==
  /\ IsListItems /\ op.prefix # <<>> /\ Len(reqs) = 3
  /\ reqs[3].token = reqs[2].doc.NextContinuationToken
  /\ reqs[3].token # reqs[2].token

\* ======================================================== sendRequest in detail

\* The clock readings a call can see, in seconds.
MaxClock == 2

\* The chunks a streamed body is read in, at most.
MaxChunks == 2

\* new Date().toUTCString(): one string per second.
toUTCString(t) ==
  CASE t = 1 -> "Tue, 03 Nov 2026 08:00:01 GMT"
    [] t = 2 -> "Tue, 03 Nov 2026 08:00:02 GMT"
    [] OTHER -> "Tue, 03 Nov 2026 08:00:03 GMT"

\* An absent date, content type or canonical block is falsy.
NoDate == ""
NoContentType == ""
NoBlock == <<>>

\* The configuration the client was constructed with.
config == [accessId |-> "GOOG1ACCESS", secret |-> "secret", bucketName |-> "bucket"]

\* Names of extension headers as a caller may spell them, and their values.
HeaderNames == {"x-amz-copy-source", "X-Amz-Copy-Source", "x-amz-meta-k", "X-Amz-Meta-K"}
HeaderValues == {"/bucket/a", "v"}

\* String.prototype.toLowerCase on the header names.
toLowerCase(name) ==
  CASE name = "X-Amz-Copy-Source" -> "x-amz-copy-source"
    [] name = "X-Amz-Meta-K" -> "x-amz-meta-k"
    [] OTHER -> name

\* a.localeCompare(b): letters compare alphabetically first, and a lower-case
\* letter comes before its upper-case form.
localeRank(name) ==
  CASE name = "x-amz-copy-source" -> 1
    [] name = "X-Amz-Copy-Source" -> 2
    [] name = "x-amz-meta-k" -> 3
    [] OTHER -> 4

localeCompare(a, b) == localeRank(a) - localeRank(b)

\* An object of headers: its entries <<name, value>> in insertion order, no
\* name twice (two entries are given different values, to tell them apart).
Entries ==
  {<<>>}
  \cup {<<<<n, v>>>> : n \in HeaderNames, v \in HeaderValues}
  \cup {e \in {<<<<n1, v1>>, <<n2, v2>>>> :
                  n1 \in HeaderNames, n2 \in HeaderNames,
                  v1 \in HeaderValues, v2 \in HeaderValues} :
          e[1][1] # e[2][1] /\ e[1][2] # e[2][2]}

\* amzHeaders as sendRequest may receive it: undefined, or an object.
NoAmzHeaders == [defined |-> FALSE, entries |-> <<>>]
AmzHeaders == {NoAmzHeaders} \cup {[defined |-> TRUE, entries |-> e] : e \in Entries}

\* Array.prototype.sort with the comparator of sendRequest.
RECURSIVE sortEntries(_)
sortEntries(entries) ==
  IF entries = <<>> THEN <<>>
  ELSE LET first == CHOOSE j \in 1..Len(entries) :
                      \A k \in 1..Len(entries) :
                        localeCompare(entries[j][1], entries[k][1]) <= 0
       IN  <<entries[first]>>
           \o sortEntries([k \in 1..(Len(entries) - 1) |->
                             IF k < first THEN entries[k] ELSE entries[k + 1]])

\* The canonical block of the extension headers: the lines "name:value" of the
\* sorted entries, to be joined by newlines; NoBlock when there is no header.
canonicalize(amzHeaders) ==
  IF amzHeaders.defined /\ Len(amzHeaders.entries) > 0
  THEN sortEntries(amzHeaders.entries)
  ELSE NoBlock

\* HMAC-SHA1 and base64, as a collision-free function of key and message.
hmac(secret, message) == [key |-> secret, message |-> message]

\* signRequest; clock is what new Date() reads when no date is passed.
signRequestOwnDate(method, canonicalResource, contentMd5, contentType, date, canonicalizedAmzHeaders, clock) ==
  LET d == toUTCString(clock)
      stringToSign ==
        IF canonicalizedAmzHeaders # NoBlock
        THEN <<<<method>>, <<contentMd5>>, <<contentType>>, <<d>>>>
             \o canonicalizedAmzHeaders \o <<<<canonicalResource>>>>
        ELSE <<<<method>>, <<contentMd5>>, <<contentType>>, <<d>>, <<canonicalResource>>>>
  IN  <<"AWS ", config.accessId, ":", hmac(config.secret, stringToSign)>>

signRequestNoBlock(method, canonicalResource, contentMd5, contentType, date, canonicalizedAmzHeaders, clock) ==
  LET d == IF date = NoDate THEN toUTCString(clock) ELSE date
      stringToSign ==
        <<<<method>>, <<contentMd5>>, <<contentType>>, <<d>>, <<canonicalResource>>>>
  IN  <<"AWS ", config.accessId, ":", hmac(config.secret, stringToSign)>>

signRequest(method, canonicalResource, contentMd5, contentType, date, canonicalizedAmzHeaders, clock) ==
  LET d == IF date = NoDate THEN toUTCString(clock) ELSE date
      stringToSign ==
        IF canonicalizedAmzHeaders # NoBlock
        THEN <<<<method>>, <<contentMd5>>, <<contentType>>, <<d>>>>
             \o canonicalizedAmzHeaders \o <<<<canonicalResource>>>>
        ELSE <<<<method>>, <<contentMd5>>, <<contentType>>, <<d>>, <<canonicalResource>>>>
  IN  <<"AWS ", config.accessId, ":", hmac(config.secret, stringToSign)>>

\* Object.assign(headers, amzHeaders): every entry is set, a later one wins.
assignNothing(headers, entries) == headers

assign(headers, entries) ==
  [n \in DOMAIN headers \cup {entries[j][1] : j \in 1..Len(entries)} |->
     IF \E j \in 1..Len(entries) : entries[j][1] = n
     THEN entries[CHOOSE j \in 1..Len(entries) :
                    /\ entries[j][1] = n
                    /\ \A k \in (j + 1)..Len(entries) : entries[k][1] # n][2]
     ELSE headers[n]]

\* What sendRequest hands to fetch for its arguments a: the first clock reading
\* is the date, the second is what a later new Date() would read.
\* A variant that looks at the content type alone.
hasContentTypeIgnoringBody(contentType, body) == contentType # NoContentType

\* A variant that never sets the header.
hasContentTypeNever(contentType, body) == FALSE

\* `contentType && body`: an empty string is falsy, null is falsy, and a
\* Buffer is truthy whatever its length.
hasContentType(contentType, body) ==
  contentType # NoContentType /\ body # "null"

fetchInit(a) ==
  LET date == toUTCString(a.clock[1])
      canonicalizedAmzHeaders == canonicalize(a.amzHeaders)
      authorization == signRequest(a.method, a.canonicalResource, "", a.contentType,
                                   date, canonicalizedAmzHeaders, a.clock[2])
      headers == [n \in {"Authorization", "Date"} |->
                    IF n = "Date" THEN <<date>> ELSE authorization]
      withAmz == IF a.amzHeaders.defined
                 THEN assign(headers, [j \in 1..Len(a.amzHeaders.entries) |->
                                         <<a.amzHeaders.entries[j][1],
                                           <<a.amzHeaders.entries[j][2]>>>>])
                 ELSE headers
      withType == IF hasContentType(a.contentType, a.body)
                  THEN assign(withAmz, <<<<"Content-Type", <<a.contentType>>>>>>)
                  ELSE withAmz
  IN  [url |-> a.url, method |-> a.method, headers |-> withType,
       body |-> IF a.body # "null" THEN a.body ELSE "undefined"]

\* The arguments of the calls looked at: sendRequest with any method, body,
\* content type and extension headers, and the callers that read the body of
\* the response afterwards.
Methods == {"GET", "PUT", "DELETE", "HEAD"}
Bodies == {"null", "buffer"}
ContentTypes == {NoContentType, "text/plain"}
Clocks == {c \in (1..MaxClock) \X (1..MaxClock) : c[1] <= c[2]}

Calls ==
  {[caller |-> "sendRequest", method |-> m, url |-> "https://host/bucket/a",
    canonicalResource |-> "/bucket/a", body |-> b, contentType |-> t, amzHeaders |-> h, clock |-> c] :
      m \in Methods, b \in Bodies, t \in ContentTypes, h \in AmzHeaders, c \in Clocks}
  \cup
  {[caller |-> f, method |-> "GET",
    url |-> IF f = "listItems" THEN "https://host/bucket/?list-type=2&max-keys=1000"
            ELSE "https://host/bucket/a",
    canonicalResource |-> IF f = "listItems" THEN "/bucket/" ELSE "/bucket/a",
    body |-> "null", contentType |-> NoContentType, amzHeaders |-> NoAmzHeaders,
    clock |-> c] :
      f \in {"listItems", "downloadItem", "downloadItemWithProgress"}, c \in Clocks}

\* The responses fetch may resolve with: status, status text, whether
\* response.body is a stream, and the content-length header (<<>>: absent).
Statuses == {200, 204, 304, 404, 500}
StatusTexts == {"", "Reason Phrase"}
ContentLengths == {<<>>, <<"0">>, <<"3">>, <<"x">>}

\* parseInt(str, 10) of a header value without sign or blanks: the number its
\* leading digits spell, NaN when it begins with no digit.
parseInt(str) ==
  LET digit == [c \in {"0", "3"} |-> IF c = "0" THEN 0 ELSE 3]
      isDigit(n) == str[n] \in DOMAIN digit
      lead == IF \A n \in 1..Len(str) : isDigit(n) THEN Len(str)
              ELSE (CHOOSE n \in 1..Len(str) :
                      ~isDigit(n) /\ \A m \in 1..(n - 1) : isDigit(m)) - 1
      value[n \in 0..Len(str)] == IF n = 0 THEN 0 ELSE 10 * value[n - 1] + digit[str[n]]
  IN  [nan |-> lead = 0, value |-> value[lead]]

\* The values reader.read() may deliver, and the bodies arrayBuffer() may
\* resolve with: bytes.
Chunks == {<<>>, <<"p">>, <<"q", "r">>}

\* A variant that puts each chunk before the ones read earlier.
RECURSIVE concatReversed(_)
concatReversed(chunks) ==
  IF chunks = <<>> THEN <<>> ELSE concatReversed(Tail(chunks)) \o Head(chunks)

\* Buffer.concat(chunks)
RECURSIVE concat(_)
concat(chunks) ==
  IF chunks = <<>> THEN <<>> ELSE Head(chunks) \o concat(Tail(chunks))

\* setTimeout(() => controller.abort(), timeout) / clearTimeout(timeoutId)
setTimeoutMissing == "none"

setTimeout == "armed"

clearTimeout(t) == IF t = "armed" THEN "cleared" ELSE t

\* What the caller awaits once sendRequest returned the response.
bodyReadAlwaysStreams(caller, streamed) ==
  CASE caller = "listItems" -> "text"
    [] caller = "downloadItem" -> "arrayBuffer"
    [] caller = "downloadItemWithProgress" -> "read"
    [] OTHER -> "settled"

bodyRead(caller, streamed) ==
  CASE caller = "listItems" -> "text"
    [] caller = "downloadItem" -> "arrayBuffer"
    [] caller = "downloadItemWithProgress" -> IF streamed THEN "read" ELSE "arrayBuffer"
    [] OTHER -> "settled"

\* new Error(`HTTP ${response.status}: ${response.statusText}\n${text}`)
httpError(status, statusText, text) ==
  [kind |-> "http", status |-> status, statusText |-> statusText, text |-> text]

\* sendRequest is called: the request is signed, the timer armed, fetch called.
sendRequestCall(a) ==
  /\ spc = "idle"
  /\ args' = a
  /\ wire' = fetchInit(a)
  /\ timer' = setTimeout
  /\ spc' = "fetch"
  /\ outcome' = [NoOutcome EXCEPT !.state = "pending", !.caller = "pending"]
  /\ UNCHANGED <<vars, frames, heap, gcsClient>>

\* fetch resolves with a response: sendRequest returns it, or reads its text
\* to throw.
fetchResolves(status, statusText, body, contentLength) ==
  /\ spc = "fetch"
  /\ IF sendRequestThrows(args.method, status)
     THEN /\ spc' = "errorText"
          /\ outcome' = [outcome EXCEPT !.status = status, !.statusText = statusText]
          /\ UNCHANGED timer
     ELSE LET parsed == parseInt(IF contentLength = <<>> THEN <<"0">> ELSE contentLength)
              usable == ~parsed.nan /\ parsed.value # 0
              streamed == body /\ usable
          IN  /\ spc' = bodyRead(args.caller, streamed)
              /\ outcome' = [outcome EXCEPT
                               !.status = status, !.statusText = statusText,
                               !.state = "resolved",
                               !.caller = IF bodyRead(args.caller, streamed) = "settled"
                                          THEN "resolved" ELSE "pending",
                               !.contentLength =
                                  IF args.caller = "downloadItemWithProgress" /\ usable
                                  THEN parsed.value ELSE 0,
                               !.body = body /\ args.caller = "downloadItemWithProgress",
                               !.reader = bodyRead(args.caller, streamed) = "read"]
              /\ timer' = clearTimeout(timer)
  /\ UNCHANGED <<args, wire>>
  /\ UNCHANGED <<vars, frames, heap, gcsClient>>

\* fetch rejects: no response.
fetchRejects ==
  /\ spc = "fetch"
  /\ spc' = "settled"
  /\ outcome' = [outcome EXCEPT !.state = "rejected", !.caller = "rejected",
                                !.error = [NoSendError EXCEPT !.kind = "network"]]
  /\ timer' = clearTimeout(timer)
  /\ UNCHANGED <<args, wire>>
  /\ UNCHANGED <<vars, frames, heap, gcsClient>>

\* response.text().catch(() => '') settled: the error is thrown.
errorText(read) ==
  /\ spc = "errorText"
  /\ spc' = "settled"
  /\ outcome' = [outcome EXCEPT !.state = "rejected", !.caller = "rejected",
                                !.error = httpError(outcome.status, outcome.statusText,
                                                    IF read THEN "<Error/>" ELSE "")]
  /\ timer' = clearTimeout(timer)
  /\ UNCHANGED <<args, wire>>
  /\ UNCHANGED <<vars, frames, heap, gcsClient>>

\* The timer fires: controller.abort() rejects whatever of the request is
\* pending.
abort ==
  /\ timer = "armed"
  /\ timer' = "fired"
  /\ spc' = "settled"
  /\ outcome' =
       IF spc = "fetch"
       THEN [outcome EXCEPT !.state = "rejected", !.caller = "rejected",
                            !.error = [NoSendError EXCEPT !.kind = "abort"]]
       ELSE IF spc = "errorText"
       THEN [outcome EXCEPT !.state = "rejected", !.caller = "rejected",
                            !.error = httpError(outcome.status, outcome.statusText, "")]
       ELSE [outcome EXCEPT !.caller = "rejected"]
  /\ UNCHANGED <<args, wire>>
  /\ UNCHANGED <<vars, frames, heap, gcsClient>>

\* response.text() / response.arrayBuffer() of the caller settles, with the
\* bytes of the body when it was read; downloadItemWithProgress then calls
\* onProgress(byteLength, byteLength) and returns the bytes.
bodyArrives(read, data) ==
  /\ spc \in {"text", "arrayBuffer"}
  /\ spc' = "settled"
  /\ outcome' =
       IF read /\ args.caller = "downloadItemWithProgress"
       THEN [outcome EXCEPT !.caller = "resolved",
                            !.progress = <<<<Len(data), Len(data)>>>>,
                            !.buffer = data]
       ELSE [outcome EXCEPT !.caller = IF read THEN "resolved" ELSE "rejected"]
  /\ UNCHANGED <<args, wire, timer>>
  /\ UNCHANGED <<vars, frames, heap, gcsClient>>

\* reader.read() of downloadItemWithProgress settles: with a chunk, which is
\* pushed, counted and reported; done, and the chunks are returned as one
\* buffer; or with an error.
readerRead(result, value) ==
  /\ spc = "read"
  /\ result = "chunk" => Len(outcome.chunks) < MaxChunks
  /\ spc' = IF result = "chunk" THEN "read" ELSE "settled"
  /\ outcome' =
       CASE result = "chunk" ->
              [outcome EXCEPT !.chunks = Append(@, value),
                              !.loaded = @ + Len(value),
                              !.progress = Append(@, <<outcome.loaded + Len(value),
                                                      outcome.contentLength>>)]
         [] result = "done" ->
              [outcome EXCEPT !.caller = "resolved", !.buffer = concat(outcome.chunks)]
         [] OTHER -> [outcome EXCEPT !.caller = "rejected"]
  /\ UNCHANGED <<args, wire, timer>>
  /\ UNCHANGED <<vars, frames, heap, gcsClient>>

\* The percent of a progress event of the 'gcs:download' handler:
\* total > 0 ? Math.round((loaded / total) * 100) : 0, with Math.round
\* rounding a half upwards.
percent(loaded, total) ==
  IF total > 0 THEN (200 * loaded + total) \div (2 * total) ELSE 0

\* The gcs:progress events the 'gcs:download' handler has sent for a download
\* whose callback was called with `calls`: the opening event, one event per
\* call and, once the buffer was written (done), the closing event.
downloadProgress(calls, done) ==
  <<[loaded |-> 0, total |-> 1, percent |-> 0]>>
  \o [n \in 1..Len(calls) |->
       [loaded |-> calls[n][1], total |-> calls[n][2],
        percent |-> percent(calls[n][1], calls[n][2])]]
  \o (IF done THEN <<[loaded |-> 1, total |-> 1, percent |-> 100]>> ELSE <<>>)

\* The request-level model at rest, with the bucket holding the keys S.
Quiet(S) ==
  /\ bucket = [k \in S |-> k]
  /\ bucket0 = bucket
  /\ op = NoOp
  /\ pc = "idle"
  /\ reqs = <<>>
  /\ inflight = {}
  /\ awaiting = 0
  /\ results = <<>>
  /\ continuationToken = 0
  /\ allObjects = <<>>
  /\ i = 0
  /\ error = NoError
  /\ returned = "none"

InitSend == Quiet({}) /\ SendIdle /\ frames = NoFrames /\ gcsClient = null /\ heap = constructor(<<TestConfig>>, 1)

NextSend ==
  \/ /\ spc = "idle"
     /\ \E a \in Calls : sendRequestCall(a)
  \/ /\ spc = "fetch"
     /\ \E status \in Statuses, statusText \in StatusTexts, body \in BOOLEAN,
           contentLength \in ContentLengths :
          fetchResolves(status, statusText, body, contentLength)
  \/ fetchRejects
  \/ \E read \in BOOLEAN : errorText(read)
  \/ abort
  \/ \E read \in BOOLEAN, data \in Chunks : bodyArrives(read, data)
  \/ /\ spc = "read"
     /\ \E result \in {"chunk", "done", "error"}, value \in Chunks :
          readerRead(result, value)

SpecSend == InitSend /\ [][NextSend]_allVars

\* The event loop runs a timer that is due, and a settled promise's continuation.
SpecSendFair == SpecSend /\ WF_allVars(abort)

\* ======================================================== concurrent calls

\* The locals of call p: every call of an async function has its own.
frameShared(p) == 1

frame(p) == p

\* Call p of listItems, up to its first await.
listItemsCallIn(p, prefix, pageSize) ==
  /\ \A r \in 1..Len(reqs) : reqs[r].call # p
  /\ reqs' = Append(reqs, [call |-> p] @@ listRequest(prefix, clampPageSize(pageSize), 0))
  /\ inflight' = inflight \cup {Len(reqs) + 1}
  /\ frames' = [frames EXCEPT ![frame(p)] =
                  [pc |-> "listItems", prefix |-> prefix,
                   pageSize |-> clampPageSize(pageSize), results |-> <<>>,
                   continuationToken |-> 0, awaiting |-> Len(reqs) + 1]]
  /\ UNCHANGED <<bucket, bucket0, op, pc, awaiting, results, continuationToken,
                 allObjects, i, error, returned, sendVars, heap, gcsClient>>

\* One turn of the while loop of call p, from the response to the next await.
listItemsPageIn(p) ==
  LET f == frames[frame(p)]
      root == reqs[f.awaiting].doc
      pushed == pushContents(f.results, root)
  IN  /\ f.pc = "listItems"
      /\ AwaitDone(f.awaiting)
      /\ IF Rejected(f.awaiting)
         THEN /\ frames' = [frames EXCEPT ![frame(p)].pc = "rejected"]
              /\ UNCHANGED <<reqs, inflight>>
         ELSE IF ~root.root
         THEN /\ frames' = [frames EXCEPT ![frame(p)].pc = "resolved"]
              /\ UNCHANGED <<reqs, inflight>>
         ELSE IF ~isTruncated(root)
         THEN /\ frames' = [frames EXCEPT ![frame(p)].pc = "resolved",
                                          ![frame(p)].results = pushed]
              /\ UNCHANGED <<reqs, inflight>>
         ELSE IF root.NextContinuationToken = 0
         THEN /\ frames' = [frames EXCEPT ![frame(p)].pc = "rejected",
                                          ![frame(p)].results = pushed,
                                          ![frame(p)].continuationToken = 0]
              /\ UNCHANGED <<reqs, inflight>>
         ELSE /\ frames' = [frames EXCEPT ![frame(p)].results = pushed,
                                          ![frame(p)].continuationToken = root.NextContinuationToken,
                                          ![frame(p)].awaiting = Len(reqs) + 1]
              /\ reqs' = Append(reqs, [call |-> p] @@
                                      listRequest(f.prefix, f.pageSize, root.NextContinuationToken))
              /\ inflight' = inflight \cup {Len(reqs) + 1}
      /\ UNCHANGED <<bucket, bucket0, op, pc, awaiting, results, continuationToken,
                     allObjects, i, error, returned, sendVars, heap, gcsClient>>

InitConc == Quiet({Kax, Kx}) /\ SendIdle /\ frames = NoFrames /\ gcsClient = null /\ heap = constructor(<<TestConfig>>, 1)

NextConc ==
  \/ \E p \in Procs, prefix \in Prefixes, n \in {1, DefaultPageSize} :
       listItemsCallIn(p, prefix, n)
  \/ \E p \in Procs : listItemsPageIn(p)
  \/ \E r \in inflight : fetch(r)

SpecConc == InitConc /\ [][NextConc]_allVars

\* ====================================================== listItems to its end

\* A bucket of three objects, two of them under 'a/'.
InitList ==
  /\ Quiet({Kax, Kay, Kx})
  /\ SendIdle
  /\ frames = NoFrames /\ gcsClient = null
  /\ heap = constructor(<<TestConfig>>, 1)

\* One listItems call and the provider.
NextList ==
  \/ \E p \in Prefixes, n \in PageSizes : listItemsCall(p, n)
  \/ listItemsPage
  \/ \E r \in inflight : fetch(r)

\* Every request completes (fetch resolves or rejects, at the latest on the
\* timeout), and the event loop runs the continuation of an await that settled.
SpecListFair ==
  /\ InitList
  /\ [][NextList]_allVars
  /\ WF_allVars(\E r \in inflight : fetch(r))
  /\ WF_allVars(listItemsPage)

\* ========================================================== repeated calls

\* The calls made one after the other in one run.
MaxCalls == 2

\* The 'gcs:delete' handler has settled and is invoked again: the client keeps
\* nothing of a call that settled, the bucket is as that call left it.
nextCall ==
  /\ pc \in {"resolved", "rejected"}
  /\ Len(reqs) < MaxCalls
  /\ pc' = "idle"
  /\ bucket0' = bucket
  /\ error' = NoError
  /\ UNCHANGED <<bucket, op, reqs, inflight, awaiting, results, continuationToken, allObjects, i>>
  /\ UNCHANGED <<returned, sendVars, frames, heap, gcsClient>>

\* deleteItem called again and again, on a key that exists or on one that
\* does not.
NextRepeat ==
  \/ \E k \in ItemKeys : deleteItemCall(k)
  \/ \E r \in inflight : fetch(r)
  \/ itemSettled
  \/ nextCall

SpecRepeat == InitConc /\ [][NextRepeat]_allVars

\* ====================================================== the connect command

\* An invocation of the 'gcs:connect' handler that has not started: where it
\* stands, the request it awaits, and the invocations that had returned when
\* it started.
NoConnect == [pc |-> "idle", awaiting |-> 0, after |-> {}]

\* new Error('Not connected')
NotConnected == [kind |-> "not-connected", req |-> 0]

\* Invocation p of 'gcs:connect', up to its await: the client is built from the
\* configuration (the constructor throws on a configuration without a service
\* URL) and assigned to gcsClient, and listFolders is called on the base path.
connectCall(p, prefix, constructs) ==
  /\ frames[p].pc = "idle"
  /\ LET after == {q \in Procs : frames[q].pc \in {"success", "failure"}}
     IN  IF constructs
         THEN /\ gcsClient' = p
              /\ reqs' = Append(reqs, sendRequest("GET", NoKey, NoKey,
                                                  foldersQuery(prefix), "folders"))
              /\ inflight' = inflight \cup {Len(reqs) + 1}
              /\ frames' = [frames EXCEPT ![p] = [pc |-> "listFolders",
                                                 awaiting |-> Len(reqs) + 1,
                                                 after |-> after]]
         ELSE /\ gcsClient' = null
              /\ frames' = [frames EXCEPT ![p] = [pc |-> "failure", awaiting |-> 0,
                                                 after |-> after]]
              /\ UNCHANGED <<reqs, inflight>>
  /\ UNCHANGED <<bucket, bucket0, op, pc, awaiting, results, continuationToken,
                 allObjects, i, error, returned, sendVars, heap>>

\* Invocation p from the settling of listFolders to its return:
\* { success: true }, or in the catch gcsClient = null and
\* { success: false, error: err.message }.
connectSettled(p) ==
  /\ frames[p].pc = "listFolders"
  /\ AwaitDone(frames[p].awaiting)
  /\ IF Rejected(frames[p].awaiting)
     THEN /\ gcsClient' = null
          /\ frames' = [frames EXCEPT ![p].pc = "failure"]
     ELSE /\ frames' = [frames EXCEPT ![p].pc = "success"]
          /\ UNCHANGED gcsClient
  /\ UNCHANGED <<bucket, bucket0, op, pc, reqs, inflight, awaiting, results,
                 continuationToken, allObjects, i, error, returned, sendVars, heap>>

\* The 'gcs:list' handler: if (!gcsClient) throw new Error('Not connected'),
\* else listFolders on the client.
listCommand(prefix) ==
  /\ pc = "idle"
  /\ IF gcsClient = null
     THEN /\ Throw(NotConnected)
          /\ UNCHANGED <<bucket, bucket0, op, results, continuationToken, allObjects, i>>
          /\ UNCHANGED <<returned, sendVars, frames, heap, gcsClient>>
     ELSE listFoldersCall(prefix)

InitConnect ==
  /\ Quiet({Kax, Kx})
  /\ SendIdle
  /\ frames = [p \in Procs |-> NoConnect]
  /\ gcsClient = null
  /\ heap = constructor(<<TestConfig>>, 1)

\* The renderer invokes connect twice and one other command, in any order and
\* without waiting.
NextConnect ==
  \/ \E p \in Procs, prefix \in Prefixes, constructs \in BOOLEAN :
       connectCall(p, prefix, constructs)
  \/ \E p \in Procs : connectSettled(p)
  \/ \E prefix \in Prefixes : listCommand(prefix)
  \/ listFoldersSettled
  \/ \E r \in inflight : fetch(r)

SpecConnect == InitConnect /\ [][NextConnect]_allVars

\* ------------------------------------------------------------ claims C11..C20

\* The response sendRequest saw, if fetch resolved.
ResponseSeen == spc # "idle" /\ outcome.status # 0

\* The statuses sendRequest passes on for the method of the call.
Passes ==
  \/ outcome.status >= 200 /\ outcome.status <= 299
  \/ args.method = "DELETE" /\ outcome.status = 404
  \/ args.method = "HEAD" /\ outcome.status = 404

\* C11: sendRequest resolves exactly when the response status is 2xx, or the
\* method is DELETE or HEAD and the status is 404; for every other method and
\* status it rejects, and the error carries the status code and the status text
\* of the response, also when reading the response body failed.
C11_ResolvesOnSuccessOnly ==
  /\ outcome.state = "resolved" => ResponseSeen /\ Passes
  /\ ResponseSeen /\ Passes => outcome.state = "resolved"
  /\ ResponseSeen /\ ~Passes =>
       /\ outcome.state \in {"pending", "rejected"}
       /\ outcome.state = "pending" <=> spc = "errorText"
       /\ outcome.state = "rejected" =>
            /\ outcome.error.kind = "http"
            /\ outcome.error.status = outcome.status
            /\ outcome.error.statusText = outcome.statusText

\* C11 witness: a GET answered 404 rejected with the status and status text
\* although the body of the response could not be read.
C11_Witness ==
  /\ ResponseSeen /\ args.method = "GET" /\ outcome.status = 404
  /\ outcome.state = "rejected"
  /\ outcome.error.status = 404 /\ outcome.error.statusText = "Reason Phrase"
  /\ outcome.error.text = "" /\ timer = "cleared"

\* Two entries of the request log are the same request on the wire.
SameRequest(r, s) ==
  /\ reqs[r].method = reqs[s].method
  /\ reqs[r].key = reqs[s].key
  /\ reqs[r].copySource = reqs[s].copySource
  /\ reqs[r].prefix = reqs[s].prefix
  /\ reqs[r].maxKeys = reqs[s].maxKeys
  /\ reqs[r].token = reqs[s].token

IsItemCall ==
  op.name \in {"uploadItem", "downloadItem", "deleteItem", "copyItem", "fileExists"}

\* C12: there are no retries: a request that failed is never issued again, a
\* step of a call (a page, the copy or the delete of an object, a marker step)
\* is requested once, and an upload, download, delete, copy or HEAD is one
\* request.
C12_NoRetries ==
  /\ \A r \in 1..Len(reqs) : \A s \in (r + 1)..Len(reqs) :
       /\ FailedResponse(reqs[r]) => ~SameRequest(r, s)
       /\ reqs[r].step = reqs[s].step => ~SameRequest(r, s)
  /\ IsItemCall => Len(reqs) = 1
  /\ \A r \in 1..Len(reqs) :
       FailedResponse(reqs[r]) /\ ~IsMarkerStep(reqs[r]) /\ reqs[r].method # "HEAD"
         => r = Len(reqs)

\* C12 witness: a folder move rejected at the failed copy of its second object,
\* which is the last request of the log and was sent once.
C12_Witness ==
  /\ op.name = "moveItem" /\ pc = "rejected"
  /\ Len(reqs) = 5 /\ reqs[5].step = "copy" /\ reqs[5].status = 500
  /\ reqs[2].step = "list"

\* C12 witness: an upload failed and was not sent again.
C12_WitnessUpload ==
  /\ op.name = "uploadItem" /\ pc = "rejected"
  /\ Len(reqs) = 1 /\ reqs[1].status = 500

\* C13: while fetch has produced no response the abort timer is armed; when it
\* fires, the request is aborted and sendRequest rejects; and sendRequest does
\* not wait for a response for ever.
C13_TimeoutRejects ==
  /\ [](spc = "fetch" => timer = "armed")
  /\ [](timer = "fired" => /\ spc = "settled"
                           /\ outcome.state = "rejected"
                           /\ outcome.status = 0 => outcome.error.kind = "abort")
  /\ (spc = "fetch" ~> spc # "fetch")

\* C13 witness: the timer fired before any response, and sendRequest rejected
\* with the abort.
C13_Witness ==
  /\ timer = "fired" /\ outcome.status = 0
  /\ outcome.state = "rejected" /\ outcome.error.kind = "abort"

\* A part of the request is pending: the response, the text of an error
\* response, or the body the caller reads (listing text, download buffer, a
\* chunk of a streamed download).
PartPending == spc \in {"fetch", "errorText", "text", "arrayBuffer", "read"}

\* C14 as stated: whenever any part of a request is still pending, the reading
\* of the body by the caller included, the abort timer is armed.
C14_Original == PartPending => timer = "armed"

\* C14, the failing case: a caller waits for a chunk of a streamed download
\* after the timer was cleared; nothing aborts the read.
C14_UnboundedBodyRead ==
  /\ spc = "read" /\ args.caller = "downloadItemWithProgress" /\ Len(outcome.chunks) = 1
  /\ timer = "cleared" /\ ~ENABLED abort

C15_WitnessRejected ==
  /\ op.name = "fileExists" /\ pc = "resolved"
  /\ reqs[1].status = 0 /\ reqs[1].state = "rejected" /\ returned = "false"

\* The requests call p issued, and the items of the pages answered to them.
Mine(p) == {r \in 1..Len(reqs) : reqs[r].call = p}

Last(S) == CHOOSE m \in S : \A r \in S : r <= m

RECURSIVE PagesOf(_)
PagesOf(S) ==
  IF S = {} THEN <<>>
  ELSE PagesOf(S \ {Last(S)})
       \o (IF reqs[Last(S)].state = "resolved" /\ reqs[Last(S)].doc.root
           THEN reqs[Last(S)].doc.Contents ELSE <<>>)

\* C16: calls running concurrently on one client share no state: under every
\* interleaving of two listItems calls and the provider's answers, the requests
\* of a call are determined by its own arguments and the responses to its own
\* requests, and so is its result.
C16_CallsShareNoState ==
  \A p \in Procs :
    LET f == frames[p]
        mine == Mine(p)
    IN  /\ f.pc = "idle" <=> mine = {}
        /\ Cardinality(mine \cap inflight) <= 1
        /\ \A r \in mine :
             /\ reqs[r].method = "GET" /\ reqs[r].key = <<>>
             /\ reqs[r].prefix = f.prefix /\ reqs[r].maxKeys = f.pageSize
             /\ IF r = CHOOSE m \in mine : \A q \in mine : m <= q
                THEN reqs[r].token = 0
                ELSE LET before == Last({q \in mine : q < r})
                     IN  /\ reqs[before].state = "resolved"
                         /\ reqs[before].doc.IsTruncated # "boolean:false"
                         /\ reqs[r].token = reqs[before].doc.NextContinuationToken
                         /\ reqs[r].token # 0
        /\ f.pc = "listItems" =>
             /\ f.awaiting = Last(mine)
             /\ f.results = PagesOf(mine \ {Last(mine)})
        /\ f.pc \in {"resolved", "rejected"} => f.results = PagesOf(mine)

\* C16 witness: two listings with different prefixes ran interleaved, page by
\* page, and each resolved with the items of its own pages.
C16_Witness ==
  /\ Len(reqs) = 3
  /\ reqs[1].call = 1 /\ reqs[2].call = 2 /\ reqs[3].call = 1
  /\ frames[1].pc = "resolved" /\ frames[2].pc = "resolved"
  /\ frames[1].prefix = <<>> /\ frames[2].prefix # <<>>
  /\ Len(frames[1].results) = 2 /\ Len(frames[2].results) = 1

\* A request was handed to fetch; the token it carries, the lines of the string
\* that was signed for it, and the extension headers its caller gave.
Sent == spc # "idle"
Token == wire.headers["Authorization"]
Signed == Token[4].message
Given == IF args.amzHeaders.defined THEN args.amzHeaders.entries ELSE <<>>
BlockLines == {Signed[j] : j \in 5..(Len(Signed) - 1)}

\* C17: the date in the signed string of a request is the value of the Date
\* header of the same request.
C17_SignedDateIsDateHeader ==
  Sent => /\ Signed[4] = wire.headers["Date"]
          /\ Signed[4] # <<"">>

\* C17 witness: a request was sent while the clock moved on between the reading
\* of the date and the signing.
C17_Witness ==
  /\ Sent /\ args.clock[1] # args.clock[2]
  /\ Signed[4] = wire.headers["Date"]

\* C18: the signed string is the method, the (empty) content hash, the content
\* type, the date, the block of the extension headers and the canonical
\* resource, one per line; the block is there exactly when an extension header
\* was given; the token is 'AWS <access id>:<signature>' and differs from the
\* token of the same request without extension headers.
C18_StringToSign ==
  Sent =>
    /\ Len(Signed) = 5 + Len(Given)
    /\ Signed[1] = <<args.method>>
    /\ Signed[2] = <<"">>
    /\ Signed[3] = <<args.contentType>>
    /\ Signed[Len(Signed)] = <<args.canonicalResource>>
    /\ \A j \in 1..Len(Given) : Given[j] \in BlockLines
    /\ Len(Token) = 4 /\ Token[1] = "AWS " /\ Token[2] = "GOOG1ACCESS" /\ Token[3] = ":"
    /\ Token[4].key = "secret"
    /\ Len(Given) > 0 =>
         Token # <<"AWS ", "GOOG1ACCESS", ":",
                   [key |-> "secret",
                    message |-> <<Signed[1], Signed[2], Signed[3], Signed[4],
                                  Signed[Len(Signed)]>>]>>

\* C18 witness: a request with two extension headers was signed over seven
\* lines.
C18_Witness == Sent /\ Len(Given) = 2 /\ Len(Signed) = 7

\* The canonical block of the given headers: lower-case names, sorted by name.
IsCanonical(block) ==
  /\ Len(block) = Len(Given)
  /\ \A j \in 1..Len(Given) :
       \E k \in 1..Len(block) : block[k] = <<toLowerCase(Given[j][1]), Given[j][2]>>
  /\ \A k \in 1..(Len(block) - 1) : localeRank(block[k][1]) <= localeRank(block[k + 1][1])

C19_CaseKept ==
  /\ Sent /\ Len(Given) = 1 /\ Given[1][1] = "X-Amz-Copy-Source"
  /\ Signed[5] = <<"X-Amz-Copy-Source", Given[1][2]>>

\* The headers handed to fetch besides Authorization, Date and Content-Type.
Transmitted ==
  {<<n, wire.headers[n][1]>> :
     n \in DOMAIN wire.headers \ {"Authorization", "Date", "Content-Type"}}

\* C20: every extension header of the signed string is handed to fetch as a
\* header of the same name and value, and no extension header is handed to fetch
\* that was not signed.
C20_SignedHeadersAreSent == Sent => BlockLines = Transmitted

\* C20 witness: two extension headers were signed and sent.
C20_Witness ==
  /\ Sent /\ Cardinality(Transmitted) = 2 /\ BlockLines = Transmitted


\* ---------------------------------------------------------------------------
\* Construction and the addressing of objects
\*
\* SpecLocal starts before the client exists: the application holds a
\* configuration object, constructs the client from it, may change its own
\* object afterwards, and makes one call that addresses an object by its key
\* or lists a prefix. The call is followed up to the request it hands to fetch.
\* ---------------------------------------------------------------------------

MaxKeyLen == 3

\* The characters of the keys: an unreserved one, the separator, a space, the
\* escape character with two digits that can follow it, and one character
\* outside ASCII (U+00E9, two bytes in UTF-8).
KeyChars == {"a", "/", " ", "%", "2", "0", "U+00E9"}

ObjectNames == UNION {[1..n -> KeyChars] : n \in 0..MaxKeyLen}

\* encodeURIComponent: unreserved characters stay, every other character
\* becomes the %XX escapes of its UTF-8 bytes.
RECURSIVE encodeURIComponent(_)
encodeURIComponent(str) ==
  IF str = <<>> THEN <<>>
  ELSE LET c == Head(str)
           escaped == CASE c = " " -> <<"%", "2", "0">>
                        [] c = "%" -> <<"%", "2", "5">>
                        [] c = "/" -> <<"%", "2", "F">>
                        [] c = "U+00E9" -> <<"%", "C", "3", "%", "A", "9">>
                        [] OTHER -> <<c>>
       IN  escaped \o encodeURIComponent(Tail(str))

\* A variant that encodes the key as a whole.
encodeKeyWhole(key) == encodeURIComponent(key)

\* key.split('/').map(s => encodeURIComponent(s)).join('/')
encodeKey(key) ==
  LET RECURSIVE split(_)
      split(str) ==
        IF \A j \in 1..Len(str) : str[j] # "/" THEN <<str>>
        ELSE LET at == CHOOSE j \in 1..Len(str) :
                         str[j] = "/" /\ \A k \in 1..(j - 1) : str[k] # "/"
             IN  <<SubSeq(str, 1, at - 1)>> \o split(SubSeq(str, at + 1, Len(str)))
      RECURSIVE join(_)
      join(parts) ==
        IF Len(parts) = 1 THEN parts[1]
        ELSE parts[1] \o <<"/">> \o join(Tail(parts))
      segments == split(key)
  IN  join([j \in 1..Len(segments) |-> encodeURIComponent(segments[j])])

\* A variant that leaves the bucket out of the URL.
urlOfEndpointOnly(cfg, encoded) == cfg.serviceUrl \o encoded

\* `${serviceUrl}${bucketName}/${encoded}`
urlOf(cfg, encoded) == cfg.serviceUrl \o cfg.bucketName \o <<"/">> \o encoded

\* `/${bucketName}/${encoded}`
canonicalResourceOf(cfg, encoded) == <<"/">> \o cfg.bucketName \o <<"/">> \o encoded

KeyOperations ==
  {"uploadItem", "downloadItem", "downloadItemWithProgress", "deleteItem",
   "copyItem", "fileExists"}

ListOperations == {"listItems", "listFolders"}

\* The content types uploadItem is called with: none (the parameter's default
\* applies), the empty string, and the type 'gcs:createFolder' passes.
UploadTypes == {"undefined", "", "application/x-directory"}

\* What the operation passes to sendRequest first; objectName is the source
\* key of copyItem and the prefix of a listing, whose page size is the default;
\* contentType is uploadItem's third argument.
callArgs(cfg, name, objectName, destKey, contentType) ==
  LET query == <<"?", "list-type=2", "&", "max-keys=1000">>
               \o (IF name = "listFolders" THEN <<"&", "delimiter=/">> ELSE <<>>)
               \o (IF objectName # <<>>
                   THEN <<"&", "prefix=">> \o encodeURIComponent(objectName)
                   ELSE <<>>)
      encoded == IF name \in ListOperations THEN <<>>
                 ELSE encodeKey(IF name = "copyItem" THEN destKey ELSE objectName)
      copySource == canonicalResourceOf(cfg, encodeKey(objectName))
  IN  [caller |-> name, objectName |-> objectName, destKey |-> destKey,
       method |-> CASE name \in {"uploadItem", "copyItem"} -> "PUT"
                    [] name = "deleteItem" -> "DELETE"
                    [] name = "fileExists" -> "HEAD"
                    [] OTHER -> "GET",
       url |-> IF name \in ListOperations THEN urlOf(cfg, query)
               ELSE urlOf(cfg, encoded),
       canonicalResource |-> canonicalResourceOf(cfg, encoded),
       body |-> IF name = "uploadItem" THEN "buffer" ELSE "null",
       contentType |-> IF name # "uploadItem" THEN NoContentType
                       ELSE IF contentType = "undefined" THEN "application/octet-stream"
                       ELSE contentType,
       amzHeaders |-> IF name = "copyItem"
                      THEN [defined |-> TRUE,
                            entries |-> <<<<"x-amz-copy-source", copySource>>>>]
                      ELSE NoAmzHeaders,
       clock |-> <<1, 1>>]

\* new GcsClient(config) with the application's object.
construct ==
  /\ heap.thisConfig = 0
  /\ heap' = constructor(heap.objects, 1)
  /\ UNCHANGED <<vars, sendVars, frames, gcsClient>>

\* The application changes the object it passed to the constructor.
callerChanges ==
  /\ heap.thisConfig # 0
  /\ heap.objects[1].secret # "other"
  /\ heap' = [heap EXCEPT !.objects[1].serviceUrl = <<"o">>,
                          !.objects[1].secret = "other"]
  /\ UNCHANGED <<vars, sendVars, frames, gcsClient>>

\* A call of the client, up to the first request it hands to fetch.
clientCall(name, objectName, destKey, contentType) ==
  /\ heap.thisConfig # 0
  /\ sendRequestCall(callArgs(heap.objects[heap.thisConfig], name, objectName, destKey,
                             contentType))

InitLocal ==
  /\ Quiet({})
  /\ SendIdle
  /\ frames = NoFrames /\ gcsClient = null
  /\ \E u \in ServiceUrls :
       heap = [objects |-> <<[TestConfig EXCEPT !.serviceUrl = u]>>, thisConfig |-> 0]

NextLocal ==
  \/ construct
  \/ callerChanges
  \/ /\ spc = "idle"
     /\ \E name \in (KeyOperations \ {"copyItem", "uploadItem"}) \cup ListOperations,
            k \in ObjectNames :
          clientCall(name, k, NoKey, "undefined")
  \/ /\ spc = "idle"
     /\ \E k \in ObjectNames, contentType \in UploadTypes :
          clientCall("uploadItem", k, NoKey, contentType)
  \/ /\ spc = "idle"
     /\ \E k \in ObjectNames :
          \/ clientCall("copyItem", <<"a", " ">>, k, "undefined")
          \/ clientCall("copyItem", k, <<"a", " ">>, "undefined")

SpecLocal == InitLocal /\ [][NextLocal]_allVars

\* ---------------------------------------------------------------------------
\* The items of a listing
\*
\* SpecParse starts with the response of a listing in hand, holding one item
\* whose Size is any short text, and takes the step that turns the item into
\* an Object Record.
\* ---------------------------------------------------------------------------

MaxSizeLen == 3

\* A JavaScript number: <<n, d>> stands for n / d, and NaN is <<0, 0>>.
NaN == <<0, 0>>

\* The texts of a Size element: digits, a sign, a decimal point and a letter;
\* <<"undefined">> stands for the element being absent.
Sizes ==
  UNION {[1..n -> {"0", "5", "-", ".", "a"}] : n \in 0..MaxSizeLen}
  \cup {<<"undefined">>}

\* Number(text) for these texts: the empty string is 0; a decimal literal with
\* an optional sign is its value; everything else is NaN.
Number(str) ==
  LET isDigit(c) == c \in {"0", "5"}
      negative == str # <<>> /\ Head(str) = "-"
      body == IF negative THEN Tail(str) ELSE str
      point == {j \in 1..Len(body) : body[j] = "."}
      literal == /\ \A j \in 1..Len(body) : isDigit(body[j]) \/ body[j] = "."
                 /\ Cardinality(point) <= 1
                 /\ \E j \in 1..Len(body) : isDigit(body[j])
      digits == SelectSeq(body, isDigit)
      RECURSIVE value(_)
      value(d) == IF d = <<>> THEN 0
                  ELSE 10 * value(SubSeq(d, 1, Len(d) - 1))
                       + (IF d[Len(d)] = "5" THEN 5 ELSE 0)
      decimals == IF point = {} THEN 0
                  ELSE Len(body) - (CHOOSE j \in point : TRUE)
  IN  IF str = <<>> THEN <<0, 1>>
      ELSE IF ~literal THEN NaN
      ELSE <<(IF negative THEN 0 - value(digits) ELSE value(digits)), 10 ^ decimals>>

\* { key: item.Key, size: Number(item.Size) || 0, lastModified: item.LastModified }
\* is pushed for the next item of the response.
pushItem ==
  LET item == reqs[awaiting].doc.Contents[Len(results) + 1]
      number == Number(item.Size)
  IN  /\ pc = "listItems"
      /\ Len(results) < Len(reqs[awaiting].doc.Contents)
      /\ results' = Append(results,
                           [key |-> item.Key,
                            size |-> IF number = NaN \/ number[1] = 0 THEN <<0, 1>>
                                     ELSE number,
                            lastModified |-> item.LastModified])
      /\ UNCHANGED <<bucket, bucket0, op, pc, reqs, inflight, awaiting,
                     continuationToken, allObjects, i, error, returned>>
      /\ UNCHANGED <<sendVars, frames, heap, gcsClient>>

\* listItems has received its response.
InitParse ==
  /\ bucket = [k \in {Kx} |-> k]
  /\ bucket0 = bucket
  /\ op = [name |-> "listItems", sourceKey |-> NoKey, destKey |-> NoKey,
           prefix |-> NoKey, pageSize |-> DefaultPageSize,
           requested |-> DefaultPageSize]
  /\ pc = "listItems"
  /\ \E size \in Sizes :
       reqs = <<[listRequest(NoKey, DefaultPageSize, 0) EXCEPT
                   !.state = "resolved", !.status = 200,
                   !.doc = [NoDoc EXCEPT
                              !.root = TRUE,
                              !.Contents = <<[Key |-> Kx, Size |-> size,
                                              LastModified |-> "2024-01-01T00:00:00.000Z"]>>]]>>
  /\ inflight = {}
  /\ awaiting = 1
  /\ results = <<>>
  /\ continuationToken = 0
  /\ allObjects = <<>>
  /\ i = 0
  /\ error = NoError
  /\ returned = "none"
  /\ SendIdle
  /\ frames = NoFrames /\ gcsClient = null
  /\ heap = constructor(<<TestConfig>>, 1)

NextParse == pushItem

SpecParse == InitParse /\ [][NextParse]_allVars

\* ---------------------------------------------------------------------------
\* Claims C21..C30
\* ---------------------------------------------------------------------------

\* C21: the request handed to fetch has a Content-Type header exactly when the
\* call gave a non-empty content type and a body, its value is then the given
\* content type, and a request without a body has no Content-Type header.
C21_ContentTypeIffTypeAndBody ==
  Sent =>
    /\ ("Content-Type" \in DOMAIN wire.headers)
         <=> (args.contentType # "" /\ args.body = "buffer")
    /\ "Content-Type" \in DOMAIN wire.headers
         => wire.headers["Content-Type"] = <<args.contentType>>
    /\ wire.body = "undefined" => "Content-Type" \notin DOMAIN wire.headers

\* C21 witness: a call without a body named a content type, and the request
\* was sent without the header.
C21_Witness ==
  /\ Sent
  /\ args.contentType = "text/plain"
  /\ args.body = "null"
  /\ "Content-Type" \notin DOMAIN wire.headers

\* C21, the other side: a body and a content type were given and the header
\* was sent.
C21_WitnessSet ==
  /\ Sent
  /\ args.body = "buffer"
  /\ "Content-Type" \in DOMAIN wire.headers

\* The configuration the client works with.
ThisConfig == heap.objects[heap.thisConfig]

\* A call that addresses an object has handed its request to fetch.
KeySent == Sent /\ args.caller \in KeyOperations

\* The key the request addresses: the destination for copyItem.
Addressed == IF args.caller = "copyItem" THEN args.destKey ELSE args.objectName

\* The encoding expected of a key, character by character: every separator
\* stays, a space and a reserved character become %XX escapes.
RECURSIVE Escaped(_)
Escaped(key) ==
  IF key = <<>> THEN <<>>
  ELSE (CASE Head(key) = " " -> <<"%", "2", "0">>
          [] Head(key) = "%" -> <<"%", "2", "5">>
          [] Head(key) = "U+00E9" -> <<"%", "C", "3", "%", "A", "9">>
          [] OTHER -> <<Head(key)>>) \o Escaped(Tail(key))

\* What is left of str after the prefix pre (str itself when pre is none).
RestOf(str, pre) ==
  IF Len(pre) <= Len(str) /\ SubSeq(str, 1, Len(pre)) = pre
  THEN SubSeq(str, Len(pre) + 1, Len(str))
  ELSE str

\* C22: for every operation that addresses an object and every key, the URL
\* handed to fetch is the endpoint followed by bucket, '/' and the encoded
\* key, the signed canonical resource is '/' followed by the same bucket, '/'
\* and encoded key, so the path after the endpoint is the canonical resource
\* without its leading '/'; copyItem's x-amz-copy-source header is '/',
\* bucket, '/' and the source key in the same encoding.
C22_UrlMatchesCanonicalResource ==
  KeySent =>
    /\ wire.url = ThisConfig.serviceUrl \o ThisConfig.bucketName \o <<"/">>
                     \o Escaped(Addressed)
    /\ Signed[Len(Signed)] =
         <<(<<"/">> \o ThisConfig.bucketName \o <<"/">> \o Escaped(Addressed))>>
    /\ <<RestOf(wire.url, ThisConfig.serviceUrl)>> = <<Tail(Signed[Len(Signed)][1])>>
    /\ args.caller = "copyItem" =>
         /\ "x-amz-copy-source" \in DOMAIN wire.headers
         /\ wire.headers["x-amz-copy-source"] =
              <<(<<"/">> \o ThisConfig.bucketName \o <<"/">> \o Escaped(args.objectName))>>

\* C22 witness: copyItem was called with a source key holding a space and a
\* separator, and a destination of other characters.
C22_Witness ==
  /\ KeySent
  /\ args.caller = "copyItem"
  /\ args.objectName = <<" ", "/", "%">>
  /\ args.destKey = <<"a", " ">>

\* C22, an upload: the key with a space was put under its encoded path.
C22_WitnessUpload ==
  /\ KeySent
  /\ args.caller = "uploadItem"
  /\ args.objectName = <<"a", "/", " ">>
  /\ RestOf(wire.url, ThisConfig.serviceUrl) = <<"b", "/", "a", "/", "%", "2", "0">>

\* The encoded key of the request, read off the canonical resource.
EncodedKey == RestOf(args.canonicalResource, <<"/">> \o ThisConfig.bucketName \o <<"/">>)

\* The positions of the separators of a string.
Separators(str) == {j \in 1..Len(str) : str[j] = "/"}

\* The n-th segment of a string (n from 1), the separators left out.
Segment(str, n) ==
  LET seps == Separators(str)
      starts == {0} \cup seps
      from == CHOOSE j \in starts : Cardinality({k \in starts : k < j}) = n - 1
      ends == {k \in seps \cup {Len(str) + 1} : k > from}
      to == CHOOSE k \in ends : \A m \in ends : k <= m
  IN  SubSeq(str, from + 1, to - 1)

\* decodeURIComponent of a segment: a %XX escape becomes the character whose
\* UTF-8 bytes it spells, every other character stands for itself.
RECURSIVE Decoded(_)
Decoded(str) ==
  IF str = <<>> THEN <<>>
  ELSE IF Len(str) >= 6 /\ SubSeq(str, 1, 6) = <<"%", "C", "3", "%", "A", "9">>
  THEN <<"U+00E9">> \o Decoded(SubSeq(str, 7, Len(str)))
  ELSE IF Len(str) >= 3 /\ SubSeq(str, 1, 3) = <<"%", "2", "0">>
  THEN <<" ">> \o Decoded(SubSeq(str, 4, Len(str)))
  ELSE IF Len(str) >= 3 /\ SubSeq(str, 1, 3) = <<"%", "2", "5">>
  THEN <<"%">> \o Decoded(SubSeq(str, 4, Len(str)))
  ELSE IF Len(str) >= 3 /\ SubSeq(str, 1, 3) = <<"%", "2", "F">>
  THEN <<"/">> \o Decoded(SubSeq(str, 4, Len(str)))
  ELSE <<Head(str)>> \o Decoded(Tail(str))

Unreserved == {"a", "2", "0"}

\* C23: the encoded key has as many separators as the key, so the same number
\* of segments (empty ones and a trailing one kept); no encoded segment
\* holds a '/' or a space; decoding the n-th encoded segment gives the n-th
\* segment of the key; and a key of unreserved characters and separators is
\* its own encoding.
C23_EncodesSegmentBySegment ==
  KeySent =>
    LET key == Addressed
        encoded == EncodedKey
        count == Cardinality(Separators(key)) + 1
    IN  /\ Cardinality(Separators(encoded)) = Cardinality(Separators(key))
        /\ \A n \in 1..count :
             /\ \A j \in 1..Len(Segment(encoded, n)) :
                  Segment(encoded, n)[j] \notin {"/", " "}
             /\ Decoded(Segment(encoded, n)) = Segment(key, n)
        /\ (\A j \in 1..Len(key) : key[j] \in Unreserved \cup {"/"}) => encoded = key

\* C23 witness: a key with an empty first segment, a space and a trailing
\* separator was encoded.
C23_Witness ==
  /\ KeySent
  /\ Addressed = <<"/", " ", "/">>
  /\ EncodedKey = <<"/", "%", "2", "0", "/">>

\* C23, the escape character: a key that spells an escape is escaped itself.
C23_WitnessPercent ==
  /\ KeySent
  /\ Addressed = <<"%", "2", "0">>
  /\ EncodedKey = <<"%", "2", "5", "2", "0">>

Constructed == heap.thisConfig # 0

\* The step is the constructor's.
Constructing == ~Constructed /\ Constructed'

\* str begins with pre.
BeginsWith(str, pre) == Len(pre) <= Len(str) /\ SubSeq(str, 1, Len(pre)) = pre

\* C24: the constructor stores the given endpoint with a '/' appended when it
\* does not end with one and as given when it does; the stored endpoint
\* always ends with '/', and normalizing it again changes nothing; the URL of
\* every request is the stored endpoint followed directly by the bucket and
\* one '/'.
C24_EndpointEndsWithSlash ==
  /\ [][Constructing =>
          LET given == heap.objects[1].serviceUrl
          IN  ThisConfig'.serviceUrl =
                IF given # <<>> /\ given[Len(given)] = "/" THEN given
                ELSE given \o <<"/">>]_allVars
  /\ [](Constructed =>
          /\ ThisConfig.serviceUrl[Len(ThisConfig.serviceUrl)] = "/"
          /\ withTrailingSlash(ThisConfig.serviceUrl) = ThisConfig.serviceUrl)
  /\ [](Sent =>
          BeginsWith(wire.url, ThisConfig.serviceUrl \o ThisConfig.bucketName \o <<"/">>))

\* C24 witness: the endpoint was given without its slash, and a listing was
\* requested under the endpoint with the slash.
C24_Witness ==
  /\ Sent
  /\ args.caller = "listFolders"
  /\ heap.objects[1].serviceUrl = <<"h", ":", "/", "/", "s", "/", "p">>
  /\ BeginsWith(wire.url, <<"h", ":", "/", "/", "s", "/", "p", "/", "b", "/", "?">>)

\* C24, the endpoint given with its slash is stored as given.
C24_WitnessKept ==
  /\ Constructed
  /\ heap.objects[1].serviceUrl = <<"h", ":", "/", "/", "s", "/">>
  /\ ThisConfig.serviceUrl = <<"h", ":", "/", "/", "s", "/">>

\* C25: the constructor leaves the object it was given as it was; once the
\* client is constructed no step changes its configuration, whether the step
\* is the application changing the object it passed or the client making a
\* call.
C25_ConfigurationFixed ==
  /\ [][Constructing => heap'.objects[1] = heap.objects[1]]_allVars
  /\ [][Constructed => ThisConfig' = ThisConfig]_allVars

\* C25 witness: the application changed its object after constructing, and a
\* call was made to the endpoint and with the secret given at construction.
C25_Witness ==
  /\ Sent
  /\ heap.objects[1].secret = "other"
  /\ heap.objects[1].serviceUrl = <<"o">>
  /\ ThisConfig.secret = "secret"
  /\ BeginsWith(wire.url, <<"h", ":", "/", "/", "s", "/">>)

\* listFolders has returned.
FoldersReturned == op.name = "listFolders" /\ pc = "resolved"

\* seq without the entries equal to x, the others in their order.
RECURSIVE Without(_, _)
Without(seq, x) ==
  IF seq = <<>> THEN <<>>
  ELSE IF Head(seq) = x THEN Without(Tail(seq), x)
  ELSE <<Head(seq)>> \o Without(Tail(seq), x)

\* C26: listFolders(prefix) returns as objects the Contents of the response
\* in their order without any entry whose key is the prefix, and as folders
\* the Prefix of every CommonPrefixes entry in their order; when the response
\* has no ListBucketResult both are empty.
C26_ListFoldersResult ==
  FoldersReturned =>
    LET root == reqs[1].doc
    IN  /\ root.root =>
             /\ returned.objects = Without(root.Contents, op.prefix)
             /\ returned.folders = root.CommonPrefixes
        /\ ~root.root => returned.objects = <<>> /\ returned.folders = <<>>

\* C26 witness: the listing of a/ held the marker a/, an object and a nested
\* prefix; the marker was left out.
C26_Witness ==
  /\ FoldersReturned
  /\ op.prefix = Ka
  /\ reqs[1].doc.Contents = <<Ka, Kax>>
  /\ reqs[1].doc.CommonPrefixes = <<Kab>>
  /\ returned = [objects |-> <<Kax>>, folders |-> <<Kab>>]

\* C26, the response without a ListBucketResult.
C26_WitnessNoRoot ==
  /\ FoldersReturned
  /\ ~reqs[1].doc.root
  /\ returned = [objects |-> <<>>, folders |-> <<>>]

\* C27: a call of listFolders issues one request, a GET with delimiter '/',
\* max-keys 1000 and no continuation token, and no further request whatever
\* the response says about truncation.
C27_ListFoldersOneRequest ==
  op.name = "listFolders" =>
    /\ Len(reqs) = 1
    /\ reqs[1].method = "GET"
    /\ reqs[1].delimiter = "/"
    /\ reqs[1].maxKeys = 1000
    /\ reqs[1].token = 0
    /\ reqs[1].prefix = op.prefix

\* C27 witness: the response was truncated and carried a token, and
\* listFolders returned after its one request.
C27_Witness ==
  /\ FoldersReturned
  /\ reqs[1].doc.IsTruncated = "boolean:true"
  /\ reqs[1].doc.NextContinuationToken # 0
  /\ Len(reqs) = 1

\* The requests of a listing made page by page.
PageRequests == {r \in 1..Len(reqs) : reqs[r].step = "list"}

\* C28: the max-keys of every request of listItems is an integer in 1..1000:
\* the page size asked for when that is in 1..1000, and 1000 when it is zero,
\* negative, above 1000 or left out (as in the listings of copyFolder and
\* moveItem).
C28_MaxKeysInRange ==
  \A r \in PageRequests :
    /\ reqs[r].maxKeys \in 1..1000
    /\ op.name = "listItems" =>
         reqs[r].maxKeys = IF op.requested \in 1..1000 THEN op.requested ELSE 1000
    /\ op.name \in {"copyFolder", "moveItem"} => reqs[r].maxKeys = 1000

\* C28 witness: a page size above the limit was asked for and 1000 was sent.
C28_Witness ==
  /\ op.name = "listItems"
  /\ op.requested = 1001
  /\ PageRequests # {}
  /\ \A r \in PageRequests : reqs[r].maxKeys = 1000

\* C28, a page size within the limits is sent as asked for, on every page.
C28_WitnessKept ==
  /\ op.name = "listItems"
  /\ op.requested = 2
  /\ Cardinality(PageRequests) = 2
  /\ \A r \in PageRequests : reqs[r].maxKeys = 2

\* C28, a negative page size.
C28_WitnessNegative ==
  /\ op.name = "listItems"
  /\ op.requested = -1
  /\ PageRequests # {}
  /\ \A r \in PageRequests : reqs[r].maxKeys = 1000

\* The items of the response that have been turned into records.
Pushed == 1..Len(results)

ItemOf(j) == reqs[1].doc.Contents[j]

\* n / d is an integer that is not negative.
NonNegativeInteger(number) ==
  number[2] > 0 /\ number[1] >= 0 /\ number[1] % number[2] = 0

\* C29: every Object Record made of an item of a listing has a size that is a
\* non-negative integer, 0 when the item's Size is not a number, and the key
\* and last-modified of the item as they were.
C29_Original ==
  \A j \in Pushed :
    /\ NonNegativeInteger(results[j].size)
    /\ Number(ItemOf(j).Size) = NaN => results[j].size = <<0, 1>>
    /\ results[j].key = ItemOf(j).Key
    /\ results[j].lastModified = ItemOf(j).LastModified

\* C29, what the code does: the size is Number(Size) when that is a number
\* other than 0, negative and fractional numbers included, and 0 otherwise.
C29_SizeIsNumberOrZero ==
  \A j \in Pushed :
    /\ results[j].size = IF Number(ItemOf(j).Size) = NaN THEN <<0, 1>>
                          ELSE IF Number(ItemOf(j).Size)[1] = 0 THEN <<0, 1>>
                          ELSE Number(ItemOf(j).Size)
    /\ results[j].key = ItemOf(j).Key
    /\ results[j].lastModified = ItemOf(j).LastModified

\* C29, the failing case: an item with Size -5 became a record of size -5.
C29_NegativeSize ==
  /\ Pushed # {}
  /\ ItemOf(1).Size = <<"-", "5">>
  /\ results[1].size = <<-5, 1>>

\* C29, a fractional Size became a record of size 0.5.
C29_FractionalSize ==
  /\ Pushed # {}
  /\ ItemOf(1).Size = <<"0", ".", "5">>
  /\ results[1].size = <<5, 10>>

\* downloadItemWithProgress reads, or has read, the body as a stream.
Streaming ==
  /\ Sent
  /\ args.caller = "downloadItemWithProgress"
  /\ outcome.state = "resolved"
  /\ outcome.contentLength # 0
  /\ outcome.reader

\* The bytes of the first n chunks, counted one chunk after the other.
RECURSIVE BytesOf(_, _)
BytesOf(chunks, n) == IF n = 0 THEN 0 ELSE BytesOf(chunks, n - 1) + Len(chunks[n])

\* The bytes of the chunks, one after the other.
InOrder(chunks) ==
  [j \in 1..BytesOf(chunks, Len(chunks)) |->
     LET c == CHOOSE n \in 1..Len(chunks) :
                 BytesOf(chunks, n - 1) < j /\ j <= BytesOf(chunks, n)
     IN  chunks[c][j - BytesOf(chunks, c - 1)]]

\* C30: while downloadItemWithProgress reads a response with a content-length
\* other than 0 as a stream, onProgress has been called once for each chunk
\* read, the n-th call with (bytes of the first n chunks, content-length), so
\* the loaded values never decrease; when it has returned, the last loaded
\* value is the length of the returned buffer, and the buffer is the chunks
\* one after the other.
C30_ProgressPerChunk ==
  Streaming =>
    /\ Len(outcome.progress) = Len(outcome.chunks)
    /\ \A n \in 1..Len(outcome.progress) :
         /\ outcome.progress[n] = <<BytesOf(outcome.chunks, n), outcome.contentLength>>
         /\ n > 1 => outcome.progress[n][1] >= outcome.progress[n - 1][1]
    /\ outcome.caller = "resolved" =>
         /\ outcome.buffer = InOrder(outcome.chunks)
         /\ outcome.progress # <<>> =>
              outcome.progress[Len(outcome.progress)][1] = Len(outcome.buffer)

\* C30 witness: a body of 3 bytes arrived as a chunk of 2 and a chunk of 1;
\* onProgress was called with (2, 3) and (3, 3) and the 3 bytes were returned.
C30_Witness ==
  /\ Streaming
  /\ outcome.caller = "resolved"
  /\ outcome.chunks = <<<<"q", "r">>, <<"p">>>>
  /\ outcome.progress = <<<<2, 3>>, <<3, 3>>>>
  /\ outcome.buffer = <<"q", "r", "p">>

\* ------------------------------------------------------------------ C31

\* downloadItemWithProgress saw a successful response that has no body stream,
\* or whose content length is missing, zero or not a number.
Unstreamed ==
  /\ Sent
  /\ args.caller = "downloadItemWithProgress"
  /\ outcome.state = "resolved"
  /\ ~outcome.body \/ outcome.contentLength = 0

\* C31: when downloadItemWithProgress gets a response without a body stream or
\* without a usable content length, it reads the whole content at once: the
\* callback is not invoked while the content is being read, and once the call
\* has returned it was invoked exactly once, with loaded and total both equal
\* to the byte length of the content returned.
C31_OneCallbackWithoutStream ==
  Unstreamed =>
    /\ spc \in {"arrayBuffer", "settled"}
    /\ spc = "arrayBuffer" => outcome.progress = <<>>
    /\ outcome.caller = "resolved" =>
         outcome.progress = <<<<Len(outcome.buffer), Len(outcome.buffer)>>>>
    /\ outcome.caller = "rejected" => outcome.progress = <<>>

\* C31 witness: the response had a body stream but no usable content length,
\* and two bytes were returned.
C31_Witness ==
  /\ Unstreamed
  /\ outcome.body
  /\ outcome.caller = "resolved"
  /\ Len(outcome.buffer) = 2

\* C31 witness: the response had no body stream and an empty content.
C31_WitnessNoBody ==
  /\ Unstreamed
  /\ ~outcome.body
  /\ outcome.caller = "resolved"
  /\ outcome.buffer = <<>>

\* ------------------------------------------------------------------ C32

\* The progress events sent so far for the download in progress.
Events == downloadProgress(outcome.progress, outcome.caller = "resolved")

\* C32 as stated: every progress event of a download carries a percent that is
\* an integer in 0..100, and in every callback of a streaming download loaded
\* is at most total. It is violated: the chunks of a body may add up to more
\* than the content-length header announced.
C32_Original ==
  (Sent /\ args.caller = "downloadItemWithProgress") =>
    /\ \A n \in 1..Len(Events) : Events[n].percent \in 0..100
    /\ \A n \in 1..Len(outcome.progress) :
         outcome.progress[n][1] <= outcome.progress[n][2]

\* The part of C32 that holds: every percent is a non-negative integer, it is
\* at most 100 whenever loaded is at most total, and the events sent without
\* a stream carry 0 or 100.
C32_PercentWithinTotal ==
  (Sent /\ args.caller = "downloadItemWithProgress") =>
    /\ \A n \in 1..Len(Events) :
         /\ Events[n].percent \in Nat
         /\ Events[n].loaded <= Events[n].total => Events[n].percent <= 100
    /\ ~Streaming => \A n \in 1..Len(Events) : Events[n].percent \in {0, 100}

\* A streaming download reported more bytes than the content-length: the
\* event carries a percent above 100.
C32_Over100 ==
  /\ Streaming
  /\ \E n \in 1..Len(Events) :
       Events[n].loaded > Events[n].total /\ Events[n].percent > 100

\* ------------------------------------------------------------------ C33

\* The bucket every run of repeated calls starts with.
FirstBucket == [k \in {Kax, Kx} |-> k]

\* The keys deleteItem was called with so far.
DeletedKeys == {reqs[r].key : r \in 1..Len(reqs)}

\* The call that just settled repeats the call before it, which resolved.
Repeated ==
  /\ Len(reqs) >= 2
  /\ reqs[Len(reqs)].key = reqs[Len(reqs) - 1].key
  /\ reqs[Len(reqs) - 1].state = "resolved"

\* C33: deleteItem is idempotent. A DELETE answered 404 resolves; after a
\* deleteItem(k) that resolved the key k is not in the bucket; a deleteItem(k)
\* that follows a resolved deleteItem(k) and resolves leaves the bucket as the
\* first left it; and every key deleteItem was not called with holds the
\* content it began with.
C33_DeleteIdempotent ==
  /\ \A r \in 1..Len(reqs) :
       (reqs[r].method = "DELETE" /\ reqs[r].status = 404) => reqs[r].state = "resolved"
  /\ (pc = "resolved" /\ op.name = "deleteItem") =>
       /\ op.sourceKey \notin DOMAIN bucket
       /\ Repeated => bucket = bucket0
  /\ DOMAIN bucket \subseteq DOMAIN FirstBucket
  /\ \A k \in DOMAIN FirstBucket \ DeletedKeys : Holds(k, FirstBucket[k])

\* C33 witness: deleteItem of a key that exists resolved twice, the second time
\* on the answer 404, and the other key is still there.
C33_Witness ==
  /\ pc = "resolved"
  /\ Repeated
  /\ reqs[Len(reqs)].key = Kx
  /\ reqs[Len(reqs) - 1].status = 204
  /\ reqs[Len(reqs)].status = 404
  /\ DOMAIN bucket = {Kax}

\* C33 witness: deleteItem of a key that never existed resolved on a 404.
C33_WitnessMissing ==
  /\ pc = "resolved"
  /\ Len(reqs) = 1
  /\ reqs[1].key = Ky
  /\ reqs[1].status = 404
  /\ bucket = FirstBucket

\* ------------------------------------------------------------------ C34

\* Invocation p of connect returns in this step.
Returns(p) == frames[p].pc \in {"idle", "listFolders"} /\ frames'[p].pc \in {"success", "failure"}

\* Invocations p and q of connect ran at the same time.
Overlap(p, q) ==
  /\ p # q
  /\ frames[p].pc # "idle" /\ frames[q].pc # "idle"
  /\ p \notin frames[q].after /\ q \notin frames[p].after

\* What connect does on every return, whatever else runs: success only when
\* its one listing resolved; failure when the constructor threw or the listing
\* rejected, and then no client is retained; and a command that finds no
\* client is refused with 'Not connected' and issues no request.
ConnectReturns ==
  /\ \A p \in Procs : Returns(p) =>
       /\ frames'[p].pc = "success" =>
            frames[p].awaiting # 0 /\ reqs[frames[p].awaiting].state = "resolved"
       /\ frames'[p].pc = "failure" =>
            /\ gcsClient' = null
            /\ frames[p].awaiting = 0 \/ Rejected(frames[p].awaiting)
  /\ (pc = "idle" /\ pc' # "idle" /\ gcsClient = null) =>
       pc' = "rejected" /\ error' = NotConnected /\ reqs' = reqs

\* Every invocation of connect issued at most one request, a delimited listing.
OneListingEach ==
  /\ \A p \in Procs : frames[p].awaiting # 0 =>
       /\ reqs[frames[p].awaiting].step = "folders"
       /\ reqs[frames[p].awaiting].delimiter = "/"
  /\ Len(reqs) <= Cardinality({p \in Procs : frames[p].awaiting # 0})
                   + (IF pc \in {"listFolders", "resolved"} \/ error.kind = "request"
                      THEN 1 ELSE 0)

\* C34 as stated: connect never rejects; it validates the client it built with
\* one listing call; when the listing succeeds it returns success and the
\* client is retained for later commands; when it fails it returns a failure
\* and no client is retained, and commands are then refused with 'Not
\* connected' without a request. It is violated: a connect may return success
\* when the failure of another connect has already discarded its client.
C34_Original ==
  /\ [][ConnectReturns]_allVars
  /\ []OneListingEach
  /\ [][\A p \in Procs : (Returns(p) /\ frames'[p].pc = "success") => gcsClient' # null]_allVars

\* The part of C34 that holds under every interleaving, and the whole of it
\* for a connect that no other connect overlaps: such a connect returns
\* success with the client it built retained.
C34_ConnectAlone ==
  /\ [][ConnectReturns]_allVars
  /\ []OneListingEach
  /\ [][\A p \in Procs :
          (Returns(p) /\ frames'[p].pc = "success" /\ \A q \in Procs : ~Overlap(p, q))
            => gcsClient' = p]_allVars

\* A connect returned success, no connect started after it, and the command
\* that followed was refused with 'Not connected'.
C34_RefusedAfterSuccess ==
  /\ \E p \in Procs :
       /\ frames[p].pc = "success"
       /\ \A q \in Procs : frames[q].pc # "idle" => p \notin frames[q].after
  /\ gcsClient = null
  /\ pc = "rejected"
  /\ error = NotConnected

\* ------------------------------------------------------------------ C35

\* Every object that was under the source is at its remapped key with its
\* content, and every other object of the bucket is as it was.
Moved ==
  /\ \A k \in SourceObjects : Holds(Remapped(k), bucket0[k])
  /\ \A k \in DOMAIN bucket0 \ SourceObjects : Holds(k, bucket0[k])

\* C35 as stated: after moveItem(source, dest) resolved, for every choice of
\* keys, also dest equal to source and a destination prefix inside the source
\* prefix, every object that was under the source is at its remapped
\* destination key with its original content, and no other object has lost or
\* changed its content. It is violated: a move onto the same key deletes the
\* object it has just copied onto itself.
C35_Original == (IsMove /\ pc = "resolved") => Moved

\* The part of C35 that holds: when no remapped destination key was in the
\* bucket before the move and every listing response was a listing document,
\* a move that resolved has moved every object and touched no other.
C35_MovedToFreshKeys ==
  (/\ IsMove /\ pc = "resolved"
   /\ DestinationKeys \cap DOMAIN bucket0 = {}
   /\ \A r \in 1..Len(reqs) : reqs[r].method = "GET" => reqs[r].doc.root)
    => Moved

\* moveItem(k, k) of an object that existed resolved, and the object is gone.
C35_SameKeyLost ==
  /\ IsFileMove /\ pc = "resolved"
  /\ op.sourceKey = op.destKey
  /\ op.sourceKey \in DOMAIN bucket0
  /\ op.sourceKey \notin DOMAIN bucket

\* A move onto a key that held another object resolved: that object, which was
\* not under the source, has lost its content.
C35_Overwritten ==
  /\ IsFileMove /\ pc = "resolved"
  /\ op.destKey # op.sourceKey
  /\ op.destKey \in DOMAIN bucket0
  /\ ~Holds(op.destKey, bucket0[op.destKey])

\* A folder was moved to a prefix inside itself and every object is at its
\* remapped key.
C35_InsideMoved ==
  /\ IsFolderMove /\ pc = "resolved"
  /\ op.destKey = Kab
  /\ Cardinality(SourceObjects) >= 2
  /\ Moved

\* ------------------------------------------------------------------ C36

\* Response r has arrived and says that more pages follow.
SaysTruncated(r) ==
  /\ reqs[r].state = "resolved"
  /\ reqs[r].doc.root
  /\ reqs[r].doc.IsTruncated \in {"boolean:true", "string:true"}

\* Response r has arrived and does not say that more pages follow.
NotTruncated(r) == reqs[r].state = "resolved" /\ ~SaysTruncated(r)

\* Request r has failed.
Failed(r) == reqs[r].state = "rejected"

\* No request follows a response that is not truncated or a failure; the call
\* resolves only on a response that is not truncated, and it resolves when it
\* settles on one: with the k-th response the first that is not truncated,
\* exactly k requests were issued.
ExactlyK ==
  op.name = "listItems" =>
    /\ \A r \in 1..(Len(reqs) - 1) : SaysTruncated(r)
    /\ pc = "resolved" => NotTruncated(Len(reqs))
    /\ (Settled /\ NotTruncated(Len(reqs))) => pc = "resolved"
    /\ pc = "rejected" => Failed(Len(reqs)) \/ SaysTruncated(Len(reqs))

\* C36: listItems terminates when every request completes: a call that was
\* made resolves or rejects; and if the k-th response is the first that is not
\* truncated, listItems issues exactly k requests and then returns.
C36_ListItemsTerminates ==
  /\ []ExactlyK
  /\ (pc = "listItems") ~> Settled
  /\ (pc = "listItems" /\ awaiting \notin inflight /\ NotTruncated(Len(reqs)))
       ~> (pc = "resolved" /\ NotTruncated(Len(reqs)))

\* C36 witness: the third response was the first that is not truncated, and
\* listItems returned after three requests.
C36_Witness ==
  /\ op.name = "listItems"
  /\ pc = "resolved"
  /\ Len(reqs) = 3
  /\ SaysTruncated(1) /\ SaysTruncated(2) /\ NotTruncated(3)
  /\ Len(results) = 3

\* ------------------------------------------------------------------ C37

\* The copy requests issued so far that name k as their source.
CopiesOf(k) == {r \in 1..Len(reqs) : reqs[r].method = "PUT" /\ reqs[r].copySource = k}

\* C37 as stated: within one copyFolder call, and within one folder moveItem
\* call, each source key is the subject of at most one copy request, also when
\* the folder marker exists and is part of the listing. It is violated: a
\* marker that is listed is copied in the loop and again in the marker step.
C37_Original ==
  IsComposite => \A r \in 1..Len(reqs) :
                   reqs[r].method = "PUT" => Cardinality(CopiesOf(reqs[r].copySource)) <= 1

\* The part of C37 that holds: every key other than the source prefix is the
\* subject of at most one copy request, and the source prefix of at most two,
\* of which the second belongs to the marker step.
C37_OnceButMarker ==
  IsComposite =>
    \A r \in 1..Len(reqs) :
      reqs[r].method = "PUT" =>
        IF reqs[r].copySource # op.sourceKey
        THEN CopiesOf(reqs[r].copySource) = {r}
        ELSE /\ Cardinality(CopiesOf(op.sourceKey)) <= 2
             /\ \A q \in CopiesOf(op.sourceKey) :
                  q < r => reqs[q].step = "copy" /\ reqs[r].step = "markerCopy"

\* copyFolder of a folder whose marker exists resolved with two copy requests
\* for the marker.
C37_MarkerCopiedTwice ==
  /\ IsCopyFolder /\ pc = "resolved"
  /\ op.sourceKey \in DOMAIN bucket0
  /\ Cardinality(CopiesOf(op.sourceKey)) = 2

\* A folder move whose marker exists: the marker step copies a key the loop
\* has already deleted, and the 404 is swallowed.
C37_MarkerMovedTwice ==
  /\ IsFolderMove /\ pc = "resolved"
  /\ Cardinality(CopiesOf(op.sourceKey)) = 2
  /\ reqs[Len(reqs)].status = 404

\* ------------------------------------------------------------------ C38

\* The content type line of the signed string.
SignedType == Signed[3]

\* C38: for every request a call of the client sends, the content type in the
\* signed string is the value of the Content-Type header handed to fetch, and
\* it is the empty string when no Content-Type header is handed to fetch.
C38_SignedTypeIsHeader ==
  Sent =>
    SignedType = IF "Content-Type" \in DOMAIN wire.headers
                 THEN wire.headers["Content-Type"]
                 ELSE <<"">>

\* C38 witness: an upload that named a content type was sent with the header,
\* and the same type is signed.
C38_Witness ==
  /\ Sent
  /\ args.caller = "uploadItem"
  /\ "Content-Type" \in DOMAIN wire.headers
  /\ wire.headers["Content-Type"] = <<"application/x-directory">>
  /\ SignedType = <<"application/x-directory">>

\* C38 witness: an upload called with the empty string as its content type was
\* sent without the header, and the signed type is empty.
C38_WitnessEmpty ==
  /\ Sent
  /\ args.caller = "uploadItem"
  /\ "Content-Type" \notin DOMAIN wire.headers
  /\ SignedType = <<"">>

\* C38 witness: a request of an operation that has no body.
C38_WitnessNoBody ==
  /\ Sent
  /\ args.caller = "deleteItem"
  /\ "Content-Type" \notin DOMAIN wire.headers

\* ------------------------------------------------------------------ C39

\* Invocation p of connect has returned success and no connect was started
\* since.
LastSuccess(p) ==
  /\ frames[p].pc = "success"
  /\ \A q \in Procs : p \in frames[q].after => frames[q].pc = "idle"

\* C39 as stated: under any interleaving of connect commands, once a connect
\* has returned success and until a later connect is started, the retained
\* client is not null and was built by a connect whose validation listing
\* succeeded. It is violated: a connect started earlier that fails later
\* discards the client, and one still validating has replaced it.
C39_Original ==
  \A p \in Procs : LastSuccess(p) =>
    /\ gcsClient # null
    /\ frames[gcsClient].pc = "success"

\* What holds of the retained client under every interleaving: it was built by
\* a connect that has not failed, and when no two connects overlapped it is
\* the client of the last connect that returned success.
C39_RetainedNotFailed ==
  /\ gcsClient # null => frames[gcsClient].pc \in {"listFolders", "success"}
  /\ \A p \in Procs :
       (LastSuccess(p) /\ \A q \in Procs : ~Overlap(p, q)) => gcsClient = p

\* Two connects overlapped, the first returned success and the second failed
\* afterwards: no client is retained.
C39_SuccessDiscarded ==
  /\ frames[1].pc = "success"
  /\ frames[2].pc = "failure"
  /\ Overlap(1, 2)
  /\ gcsClient = null

\* A connect returned success while the client retained is that of a connect
\* still validating.
C39_Unvalidated ==
  /\ frames[1].pc = "success"
  /\ frames[2].pc = "listFolders"
  /\ gcsClient = 2

====
